---- MODULE Spec2Model ----
(***************************************************************************)
(* A model of the getsentry/pypi wheel mirror: the Resolver loop of        *)
(* build.py (main, _download, _build and the scoped system-dependency      *)
(* install) together with the pure helpers it relies on.                   *)
(*                                                                         *)
(* Wheel filenames are records of their dash-separated fields; a platform  *)
(* tag is a record of its family and its trailing architecture suffix, so  *)
(* that startswith("linux_") and endswith("_x86_64") are decided by what   *)
(* the code looks at.                                                      *)
(***************************************************************************)
EXTENDS Integers, Sequences, FiniteSets, TLC

VARIABLES
    host,             \* sys.platform: "linux" or "darwin"
    cfg,              \* the manifest: sequence of sections (packages.ini)
    catalog,          \* remote packages.json: sequence of wheel filenames
    internal_wheels,  \* main: index fetched from the catalog
    built,            \* main: index of wheels acquired during this run
    pair,             \* position in itertools.product(all_packages, pythons)
    pc,               \* position of the main thread
    opt,              \* _download: index of the strategy being tried
    tmpdir,           \* _download: files in the download directory
    dest,             \* files copied into --dest
    acquired,         \* the filename _download / _build returned to main
    sdist,            \* _build: the source distribution fetched
    wheel,            \* _build: the wheel pip produced
    installed,        \* system packages installed on the host
    installed_before, \* _apt_install / _brew_install: snapshot at entry
    scope,            \* "out", "entered" (past the yield) or "left"
    apt_updated,      \* lru_cache of _apt_update
    exc,              \* the exception propagating, "none" if none
    fatal,            \* the SystemExit message, when there is one
    ret,              \* exit status of main, -1 while it runs
    status,           \* per pair: what the Resolver decided
    attempts,         \* history: download strategies tried for this pair
    purges,           \* history: arguments of every removal command run
    pre_build,        \* history: installed set when _build was entered
    verdict,          \* _download: arch_reason, the result of _check_arch
    fresh,            \* history: catalog lines added by the last publication
    prior,            \* history: what the previous run decided for each pair
    run,              \* number of the current invocation of main
    environ,          \* os.environ of the process
    before,           \* _prebuild: the snapshot {**env}, when one is held
    env_entry,        \* history: os.environ when _prebuild was entered
    dist,             \* validate.main: sorted(os.listdir(args.dist))
    file,             \* validate.main: position in dist
    wheel_tags,       \* validate.main: tags parsed from the filename
    to_check,         \* validate.main: what _pythons_to_check returned
    checking,         \* validate.main: position in to_check
    validated,        \* history: the calls of validate._validate
    expected_archs,   \* results of the two _expected_archs_for_wheel
    host_platforms,   \* what packaging.tags.platform_tags() reports
    ini,              \* the lines of packages.ini (format_ini, add_pkg)
    section,          \* the key and mapping given to Package.make
    made,             \* what Package.make returned or raised
    rets,             \* history: what each run of format_ini / add_pkg returned
    deps,             \* add_pkg: the (name, version) pairs pip resolved
    tree,             \* make_index: the files under --dist
    packages,         \* make_index: the entries of the remote packages.json
    site              \* make_index: what was written under --dest

vars == <<host, cfg, catalog, internal_wheels, built, pair, pc, opt, tmpdir,
          dest, acquired, sdist, wheel, installed, installed_before, scope,
          apt_updated, exc, fatal, ret, status, attempts, purges, pre_build,
          verdict, fresh, prior, run, environ, before, env_entry, dist,
          file, wheel_tags, to_check, checking, validated, expected_archs,
          host_platforms, ini, section, made,
          rets, deps, tree, packages, site>>

-----------------------------------------------------------------------------
(* Bounds of the model *)

MaxPackages == 2      \* sections in the manifest
MaxPublished == 1     \* wheels listed in the remote catalog at the start
MaxRuns == 2          \* invocations of main
MaxLines == 2         \* lines of the catalog a wheel index is built from
MaxMembers == 2       \* members of the wheel archive given to _check_arch
MaxTags == 3          \* tags in the tag set given to _pythons_to_check
MaxDist == 2          \* wheels in the directory validate.main lists
MaxPlatforms == 2     \* platform identifiers the host reports
MaxSegments == 2      \* segments of the platform field of a filename
MaxKeys == 2          \* keys of the mapping given to Package.make
MaxIniLines == 3      \* lines of packages.ini given to format_ini
MaxToolRuns == 2      \* runs of format_ini or add_pkg in a row
MaxTree == 3          \* files under --dist given to make_index
MaxRemote == 2        \* entries of the remote packages.json

-----------------------------------------------------------------------------
(* Tags, interpreters and platform tags *)

PYTHONS == << <<3, 11>>, <<3, 12>>, <<3, 13>> >>

\* the interpreter minors packaging enumerates below the requested one
OlderMinors(minor) == {m \in {10, 11, 12} : m < minor}

CpTag(minor) == "cp3" \o ToString(minor)
PyTag(minor) == "py3" \o ToString(minor)

Plat(fam, suf) == [fam |-> fam, suf |-> suf]
AnyPlat == Plat("any", "")

\* what packaging.tags.platform_tags() reports on the hosts of the Resolver
\* runs: most specific first, the generic linux_<arch> tag last
HostPlatforms(h) ==
    IF h = "linux"
    THEN << Plat("manylinux_2_28", "x86_64"), Plat("manylinux2014", "x86_64"),
            Plat("linux", "x86_64") >>
    ELSE << Plat("macosx_11_0", "arm64"), Plat("macosx_11_0", "universal2") >>

\* packaging.tags.platform_tags()
platform_tags == host_platforms

\* no platform taken for a generic one
StartsWithNothing(plat) == FALSE

\* plat.startswith("linux_")
StartsWithLinux(plat) == plat.fam = "linux"

Range(s) == {s[k] : k \in DOMAIN s}

\* packaging.tags.cpython_tags(version, platforms=platforms)
cpython_tags(version, platforms) ==
    LET interp == CpTag(version[2]) IN
    {<<interp, abi, p>> : abi \in {interp, "abi3", "none"}, p \in platforms}
      \cup {<<CpTag(m), "abi3", p>> : m \in OlderMinors(version[2]), p \in platforms}

\* packaging.tags.compatible_tags(version, platforms=platforms)
compatible_tags(version, platforms) ==
    LET pys == {PyTag(version[2]), "py3"}
                 \cup {PyTag(m) : m \in OlderMinors(version[2])} IN
    {<<py, "none", p>> : py \in pys, p \in platforms \cup {AnyPlat}}

_supported_tags(version) ==
    LET platforms == {p \in Range(platform_tags) : ~StartsWithLinux(p)} IN
    cpython_tags(version, platforms) \cup compatible_tags(version, platforms)

Python(version) == [version |-> version, tags |-> _supported_tags(version)]

\* Python.version_string
version_string(python) == ToString(python.version[1]) \o "." \o ToString(python.version[2])

\* main, line 631
pythons == [k \in DOMAIN PYTHONS |-> Python(PYTHONS[k])]

-----------------------------------------------------------------------------
(* Wheel filenames and the wheel index *)

\* the name of the file kept as written
canonicalize_name_as_written(name) == name

\* packaging.utils.canonicalize_name on the names used here
canonicalize_name(name) == IF name = "my_pkg" THEN "my-pkg" ELSE name

\* a wheel filename name-version-pys-abi-plats.whl; pys is the dotted
\* interpreter field (a set), plats the dotted platform field (a sequence)
Filename(name, version, pys, abi, plats) ==
    [name |-> name, version |-> version, pys |-> pys, abi |-> abi, plats |-> plats]

\* packaging.utils.parse_wheel_filename: (name, version, build, tags)
parse_wheel_filename(f) ==
    [name |-> canonicalize_name(f.name),
     version |-> f.version,
     tags |-> {<<py, f.abi, p>> : py \in f.pys, p \in Range(f.plats)}]

\* d.get(name, ())
DictGet(d, name) == IF name \in DOMAIN d THEN d[name] ELSE << >>

EmptyDict == [n \in {} |-> << >>]

\* the list under the name replaced by the new entry
_add_wheel_replacing(d, f) ==
    LET p == parse_wheel_filename(f)
        entry == [version |-> p.version, tags |-> p.tags] IN
    [n \in DOMAIN d \cup {p.name} |-> IF n = p.name THEN <<entry>> ELSE d[n]]

\* _add_wheel(d, f): d.setdefault(name, []).append((version, tags))
_add_wheel(d, f) ==
    LET p == parse_wheel_filename(f)
        entry == [version |-> p.version, tags |-> p.tags] IN
    [n \in DOMAIN d \cup {p.name} |->
        IF n = p.name THEN Append(DictGet(d, n), entry) ELSE d[n]]

RECURSIVE AddAll(_, _, _)
AddAll(d, lines, k) ==
    IF k > Len(lines) THEN d ELSE AddAll(_add_wheel(d, lines[k]), lines, k + 1)

\* the first line taken for a header
_internal_wheels_after_header(lines) == AddAll(EmptyDict, lines, 2)

\* _internal_wheels(index): one _add_wheel per line of packages.json
_internal_wheels(lines) == AddAll(EmptyDict, lines, 1)

\* the loop returning after its first entry, whatever it is
SatisfiedFromFirst(package, entries, tags, k) ==
    /\ k <= Len(entries)
    /\ entries[k].version = package.version
    /\ (entries[k].tags \cap tags) # {}

\* the for/else loop of Package.satisfied_by over wheels.get(self.name, ())
RECURSIVE SatisfiedFrom(_, _, _, _)
SatisfiedFrom(package, entries, tags, k) ==
    IF k > Len(entries) THEN FALSE
    ELSE IF entries[k].version = package.version /\ (entries[k].tags \cap tags) # {}
         THEN TRUE
         ELSE SatisfiedFrom(package, entries, tags, k + 1)

\* the version of the entry not compared
satisfied_by_any_version(package, wheels, tags) ==
    \E k \in DOMAIN DictGet(wheels, package.name) :
        (wheels[package.name][k].tags \cap tags) # {}

\* the loop starting one entry too late
satisfied_by_from_second(package, wheels, tags) ==
    SatisfiedFrom(package, DictGet(wheels, package.name), tags, 2)

satisfied_by(package, wheels, tags) ==
    SatisfiedFrom(package, DictGet(wheels, package.name), tags, 1)

\* python.version_string in package.python_versions (a SpecifierSet)
\* every interpreter taken to be within the constraint
SpecifierContainsAny(spec, python) == TRUE

SpecifierContains(spec, python) ==
    CASE spec = "" -> TRUE
      [] spec = ">=3.12" -> python.version[2] >= 12
      [] spec = "<3.13" -> python.version[2] < 13

-----------------------------------------------------------------------------
(* Wheel archives and the architecture check *)

\* a member of a wheel archive: where its name lies, how its name ends,
\* whether its first two bytes are "#!", and what binary it really is
Member(dir, ext, shebang, bin) ==
    [dir |-> dir, ext |-> ext, shebang |-> shebang, bin |-> bin]

\* a wheel file: its filename and zipf.namelist() in archive order
WheelFile(fn, members) == [fn |-> fn, members |-> members]

\* "/tests/" in name
InTests(m) == m.dir = "pkg/tests"

\* name.endswith((".so", ".dylib")) or ".so." in name
IsLibrary(m) == m.ext \in {".so", ".dylib", ".so.1"}

\* build.DATA_SCRIPTS: ^[^/]+.data/scripts/[^/]+(?<!\.py)$
DATA_SCRIPTS(m) == m.dir = "data/scripts" /\ m.ext # ".py"

Raised == [raised |-> TRUE, archs |-> {}]
Archs(s) == [raised |-> FALSE, archs |-> s]

\* _linux_get_archs: `file` output holds ", x86-64," or ", ARM aarch64,",
\* anything else is an AssertionError
_linux_get_archs(m) ==
    CASE m.bin = "elf-x86_64" -> Archs({"x86_64"})
      [] m.bin = "elf-aarch64" -> Archs({"aarch64"})
      [] OTHER -> Raised

\* _darwin_get_archs: the lower-cased cputype of every Mach header otool
\* prints; output that is not in chunks of four lines is an AssertionError
_darwin_get_archs(m) ==
    CASE m.bin = "macho-x86_64" -> Archs({"x86_64"})
      [] m.bin = "macho-arm64" -> Archs({"arm64"})
      [] m.bin = "macho-fat" -> Archs({"x86_64", "arm64"})
      [] OTHER -> Raised

\* plat.get_archs
get_archs(m) == IF host = "linux" THEN _linux_get_archs(m) ELSE _darwin_get_archs(m)

\* one platform segment of _expected_archs_for_wheel
\* _intel taken for both architectures
SegmentArchs_intel_universal(plat) ==
    CASE plat = AnyPlat -> Archs({})
      [] plat # AnyPlat /\ plat.suf \in {"intel", "universal2"} -> Archs({"x86_64", "arm64"})
      [] plat # AnyPlat /\ plat.suf \in {"aarch64", "arm64", "x86_64"} -> Archs({plat.suf})
      [] OTHER -> Raised

SegmentArchs(plat) ==
    CASE plat = AnyPlat -> Archs({})
      [] plat # AnyPlat /\ plat.suf = "intel" -> Archs({"x86_64"})
      [] plat # AnyPlat /\ plat.suf = "universal2" -> Archs({"x86_64", "arm64"})
      [] plat # AnyPlat /\ plat.suf \in {"aarch64", "arm64", "x86_64"} -> Archs({plat.suf})
      [] OTHER -> Raised

RECURSIVE ExpectedFrom(_, _, _)
ExpectedFrom(plats, k, archs) ==
    IF k > Len(plats) THEN Archs(archs)
    ELSE LET seg == SegmentArchs(plats[k]) IN
         IF seg.raised THEN Raised
         ELSE ExpectedFrom(plats, k + 1, archs \cup seg.archs)

_expected_archs_for_wheel(fn) == ExpectedFrom(fn.plats, 1, {})

\* the test on the name forgetting ".so"
IsArchFileNoSo(m) ==
    /\ ~InTests(m)
    /\ \/ m.ext = ".dylib"
       \/ DATA_SCRIPTS(m) /\ ~m.shebang

\* the members _check_arch extracts, in archive order
IsArchFile(m) ==
    /\ ~InTests(m)
    /\ \/ IsLibrary(m)
       \/ DATA_SCRIPTS(m) /\ ~m.shebang

ArchFiles(members) == SelectSeq(members, IsArchFile)

NoReason == [kind |-> "none", member |-> 0, expected |-> {}, received |-> {}]
CheckRaised == [kind |-> "raise", member |-> 0, expected |-> {}, received |-> {}]

\* the loop comparing for equality, as validate._validate does
RECURSIVE CheckFromEqual(_, _, _)
CheckFromEqual(arch_files, archs, k) ==
    IF k > Len(arch_files) THEN NoReason
    ELSE LET archs_for_file == get_archs(arch_files[k]) IN
         IF archs_for_file.raised THEN CheckRaised
         ELSE IF archs_for_file.archs # archs
              THEN [kind |-> "reason", member |-> k, expected |-> archs,
                    received |-> archs_for_file.archs]
              ELSE CheckFromEqual(arch_files, archs, k + 1)

\* the loop of _check_arch over arch_files, lines 381-388
RECURSIVE CheckFrom(_, _, _)
CheckFrom(arch_files, archs, k) ==
    IF k > Len(arch_files) THEN NoReason
    ELSE LET archs_for_file == get_archs(arch_files[k]) IN
         IF archs_for_file.raised THEN CheckRaised
         ELSE IF (archs \cap archs_for_file.archs) # archs
              THEN [kind |-> "reason", member |-> k, expected |-> archs,
                    received |-> archs_for_file.archs]
              ELSE CheckFrom(arch_files, archs, k + 1)

\* _check_arch(filename): None, a mismatch reason, or an exception
_check_arch(w) ==
    LET arch_files == ArchFiles(w.members)
        archs == _expected_archs_for_wheel(w.fn) IN
    IF archs.raised THEN CheckRaised ELSE CheckFrom(arch_files, archs.archs, 1)

-----------------------------------------------------------------------------
(* Source distributions and the expected-binary heuristic *)

BINARY_EXTS == {".c", ".cc", ".cpp", ".cxx", ".pxd", ".pxi", ".pyx", ".go", ".rs"}

\* a name in an sdist: the full path, whether it lies under /test/ or
\* /tests/, and os.path.splitext(name)[1]
SdistName(path, dir, ext) == [path |-> path, dir |-> dir, ext |-> ext]

Sdist(names, cffi) == [names |-> names, cffi |-> cffi]

NoBinary == [kind |-> "none", exts |-> {}]

\* the heuristic without its look at setup.py
_likely_binary_exts_only(sd, likely_binary_ignore) ==
    LET found == {n.ext : n \in {n \in Range(sd.names) :
                                    /\ n.dir \notin {"test", "tests"}
                                    /\ n.path \notin likely_binary_ignore
                                    /\ n.ext \in BINARY_EXTS}} IN
    IF found # {} THEN [kind |-> "exts", exts |-> found] ELSE NoBinary

\* _likely_binary(sdist, likely_binary_ignore)
_likely_binary(sd, likely_binary_ignore) ==
    LET found == {n.ext : n \in {n \in Range(sd.names) :
                                    /\ n.dir \notin {"test", "tests"}
                                    /\ n.path \notin likely_binary_ignore
                                    /\ n.ext \in BINARY_EXTS}} IN
    IF found # {} THEN [kind |-> "exts", exts |-> found]
    ELSE IF sd.cffi THEN [kind |-> "cffi_modules", exts |-> {}]
    ELSE NoBinary

\* every wheel taken for a binary one
_produced_binary_always(w) == TRUE

\* _produced_binary(wheel): some name ends with ".so"
_produced_binary(w) == \E k \in DOMAIN w.members : w.members[k].ext = ".so"

\* filename.endswith("-any.whl")
EndsWithAny(fn) == fn.plats[Len(fn.plats)] = AnyPlat

-----------------------------------------------------------------------------
(* The manifest *)

\* a section of packages.ini: its name `name==version` and its keys
Section(name, version, apt, brew, prebuild, ignore, pyvers) ==
    [name |-> name, version |-> version, apt_requires |-> apt,
     brew_requires |-> brew, custom_prebuild |-> prebuild,
     likely_binary_ignore |-> ignore, python_versions |-> pyvers]

\* Package.make(key, val) for a section whose keys are all recognized
Package_make(sec) ==
    [name |-> sec.name, version |-> sec.version,
     apt_requires |-> sec.apt_requires, brew_requires |-> sec.brew_requires,
     custom_prebuild |-> sec.custom_prebuild,
     likely_binary_ignore |-> Range(sec.likely_binary_ignore),
     python_versions |-> sec.python_versions]

\* main, line 636
all_packages == [k \in DOMAIN cfg |-> Package_make(cfg[k])]

\* itertools.product(all_packages, pythons), line 637
NPairs == Len(cfg) * Len(PYTHONS)
PairPackage(p) == all_packages[((p - 1) \div Len(PYTHONS)) + 1]
PairPython(p) == pythons[((p - 1) % Len(PYTHONS)) + 1]

\* the sections a manifest is drawn from
SecFoo == Section("foo", "1", << >>, << >>, << >>, << >>, "")
SecBar == Section("bar", "2", <<"libxml">>, <<"libxml">>, <<"prebuild/bar">>, << >>, "<3.13")
SecMyPkg == Section("my-pkg", "1", << >>, << >>, << >>, <<"my_pkg-1/vendor/x.c">>, ">=3.12")
Sections == {SecFoo, SecBar, SecMyPkg}

\* configparser keeps sections in file order and refuses duplicates
Manifests ==
    {m \in UNION {[1..n -> Sections] : n \in 1..MaxPackages} :
        \A a, b \in DOMAIN m : a # b => m[a] # m[b]}

-----------------------------------------------------------------------------
(* The public index, as pip and the build tools show it to the Resolver *)

\* the platform tag of the binary wheels the public index serves
PublicPlat == IF host = "linux" THEN Plat("manylinux2014", "x86_64")
              ELSE Plat("macosx_11_0", "arm64")

\* the platform tag `pip wheel` gives a freshly compiled wheel
LocalPlat == IF host = "linux" THEN Plat("linux", "x86_64")
             ELSE Plat("macosx_11_0", "arm64")

\* the platform tag the repair step leaves (auditwheel --plat / delocate)
RepairedPlat == IF host = "linux" THEN Plat("manylinux_2_28", "x86_64")
                ELSE Plat("macosx_11_0", "arm64")

NativeBin == IF host = "linux" THEN "elf-x86_64" ELSE "macho-arm64"
ForeignBin == IF host = "linux" THEN "elf-aarch64" ELSE "macho-x86_64"
UnknownBin == IF host = "linux" THEN "elf-i386" ELSE "text"

PyFile == Member("pkg", ".py", FALSE, "text")
Lib(bin) == Member("pkg", ".so", FALSE, bin)
TestLib(bin) == Member("pkg/tests", ".so", FALSE, bin)
Launcher(bin) == Member("data/scripts", "", FALSE, bin)

ExactName(name, version, python, plat) ==
    Filename(name, version, {CpTag(python.version[2])}, CpTag(python.version[2]), <<plat>>)
PureName(name, version) == Filename(name, version, {"py3"}, "none", <<AnyPlat>>)

\* what `pip download --only-binary=:all:` may leave in tmpdir for the
\* architecture-specific strategy: foo is pure Python, bar has no wheel on
\* the public index, my-pkg has binary wheels that are sometimes mistagged
ArchCandidates(package, python) ==
    CASE package.name = "foo" ->
           {WheelFile(PureName("foo", "1"), <<PyFile>>)}
      [] package.name = "bar" -> {}
      [] package.name = "my-pkg" ->
           {WheelFile(ExactName("my_pkg", "1", python, PublicPlat), ms) :
               ms \in {<<PyFile, Lib(NativeBin)>>,
                       <<Lib(ForeignBin), PyFile>>,
                       <<Lib(UnknownBin)>>}
                      \cup (IF host = "darwin" THEN {<<Lib("macho-fat")>>}
                            ELSE {<<Lib(NativeBin), TestLib(ForeignBin)>>})}

\* ... and for the --platform=any strategy
AnyCandidates(package, python) ==
    CASE package.name = "foo" ->
           {WheelFile(PureName("foo", "1"), <<PyFile>>)}
      [] package.name = "bar" -> {}
      [] package.name = "my-pkg" ->
           {WheelFile(PureName("my_pkg", "1"), ms) :
               ms \in {<<PyFile>>, <<PyFile, Launcher(NativeBin)>>}}

Candidates(strategy, package, python) ==
    IF strategy = "arch" THEN ArchCandidates(package, python)
    ELSE AnyCandidates(package, python)

\* the source distributions `pip download --no-binary` may fetch
Sdists(package) ==
    CASE package.name = "foo" ->
           {Sdist(<<SdistName("foo-1/foo.py", "src", ".py")>>, FALSE)}
      [] package.name = "bar" ->
           {Sdist(<<SdistName("bar-2/bar.py", "src", ".py"),
                    SdistName("bar-2/_bar.c", "src", ".c")>>, FALSE)}
      [] package.name = "my-pkg" ->
           {Sdist(<<SdistName("my_pkg-1/tests/t.c", "tests", ".c"),
                    SdistName("my_pkg-1/vendor/x.c", "src", ".c")>>, cffi) :
               cffi \in BOOLEAN}

\* the wheels `pip wheel` may produce from the sdist
BuildProducts(package, python) ==
    CASE package.name = "foo" ->
           {WheelFile(PureName("foo", "1"), <<PyFile>>)}
      [] package.name = "bar" ->
           {WheelFile(ExactName("bar", "2", python, LocalPlat), <<PyFile, Lib(NativeBin)>>),
            WheelFile(PureName("bar", "2"), <<PyFile>>)}
      [] package.name = "my-pkg" ->
           {WheelFile(PureName("my_pkg", "1"), <<PyFile>>)}

\* plat.repair_wheel: the single wheel left in repair_dir
Repaired(w) == WheelFile([w.fn EXCEPT !.plats = <<RepairedPlat>>], w.members)

\* what installing the named system packages brings in
InstallSet(requires) ==
    Range(requires) \cup (IF "libxml" \in Range(requires) THEN {"libicu"} ELSE {})

\* the wheels a remote catalog may list when main starts
PublishedNames ==
    {PureName("foo", "1"), PureName("foo", "2"),
     ExactName("bar", "2", pythons[1], PublicPlat)}

Catalogs ==
    {c \in UNION {[1..n -> PublishedNames] : n \in 0..MaxPublished} :
        \A a, b \in DOMAIN c : a # b => c[a] # c[b]}

-----------------------------------------------------------------------------
(* The environment of the build: build._join_env and build._prebuild *)

\* os.pathsep
pathsep == ":"

\* _prefix_path(*parts): os.path.join(prefix, *parts), where prefix is
\* os.path.join(tmpdir, "prefix")
_prefix_path(parts) == "/tmp/prefix/" \o parts

\* the prior value dropped
_join_env_value_only(name, value, sep, env) == value

\* _join_env(name=, value=, sep=, env=)
_join_env(name, value, sep, env) ==
    IF name \in DOMAIN env THEN value \o sep \o env[name] ELSE value

\* env.update(**kwargs)
EnvUpdate(env, kwargs) ==
    [n \in DOMAIN env \cup DOMAIN kwargs |->
        IF n \in DOMAIN kwargs THEN kwargs[n] ELSE env[n]]

\* _prebuild, lines 464-495: the mapping after env.update(...)
_prebuild_update(env) ==
    EnvUpdate(env,
      [PATH |-> _join_env("PATH", _prefix_path("bin"), pathsep, env),
       CPPFLAGS |-> _join_env("CPPFLAGS", "-I" \o _prefix_path("include"), " ", env),
       LDFLAGS |-> _join_env("LDFLAGS", "-L" \o _prefix_path("lib"), " ", env),
       LD_LIBRARY_PATH |-> _join_env("LD_LIBRARY_PATH", _prefix_path("lib"), pathsep, env),
       PKG_CONFIG_PATH |-> _join_env("PKG_CONFIG_PATH", _prefix_path("lib/pkgconfig"),
                                     pathsep, env)])

\* _prebuild, lines 498-500: env.clear(); env.update(before), when the
\* try block was entered
_prebuild_finally(env, snapshot) ==
    IF snapshot # << >> THEN snapshot[1] ELSE env

\* the variables _prebuild sets
PrebuildNames == {"PATH", "CPPFLAGS", "LDFLAGS", "LD_LIBRARY_PATH", "PKG_CONFIG_PATH"}

\* the value a variable has in the inherited environment, when it is set
Inherited(name) ==
    CASE name = "PATH" -> "/usr/bin"
      [] name = "CPPFLAGS" -> "-I/opt/include"
      [] name = "LDFLAGS" -> "-L/opt/lib"
      [] name = "LD_LIBRARY_PATH" -> "/opt/lib"
      [] name = "PKG_CONFIG_PATH" -> "/opt/lib/pkgconfig"
      [] OTHER -> "/root"

\* environments the process may be started in: HOME is always set, each
\* variable _prebuild touches is set or not
Environs ==
    {[n \in S \cup {"HOME"} |-> Inherited(n)] : S \in SUBSET PrebuildNames}

\* the environment of the Resolver runs
HostEnv == [n \in {"HOME", "PATH"} |-> Inherited(n)]

-----------------------------------------------------------------------------
(* The Resolver: build.main *)

NoFatal == [name |-> "", version |-> "", reason |-> NoBinary]
NoFile == WheelFile(Filename("", "", {}, "", << >>), << >>)
NoSdist == Sdist(<< >>, FALSE)
NoExpected == [build |-> << >>, validate |-> << >>]

\* the maintenance tools have not run
NoTools ==
    /\ ini = << >>
    /\ section = [key |-> << >>, val |-> << >>]
    /\ made = << >>
    /\ rets = << >>
    /\ deps = << >>
    /\ tree = {}
    /\ packages = << >>
    /\ site = [packages_json |-> << >>, wheels |-> {}]

\* validate.main is not running
NoVerifier ==
    /\ dist = << >>
    /\ file = 1
    /\ wheel_tags = {}
    /\ to_check = << >>
    /\ checking = 1
    /\ validated = << >>

\* the state main reaches at the top of its loop, line 637
Start(h, c, lines, inst, r) ==
    /\ host = h
    /\ cfg = c
    /\ catalog = lines
    /\ internal_wheels = _internal_wheels(lines)
    /\ built = EmptyDict
    /\ pair = 1
    /\ pc = "loop"
    /\ opt = 1
    /\ tmpdir = {}
    /\ dest = {}
    /\ acquired = NoFile.fn
    /\ sdist = NoSdist
    /\ wheel = NoFile
    /\ installed = inst
    /\ installed_before = {}
    /\ scope = "out"
    /\ apt_updated = FALSE
    /\ exc = "none"
    /\ fatal = NoFatal
    /\ ret = -1
    /\ status = [p \in 1..(Len(c) * Len(PYTHONS)) |-> "unresolved"]
    /\ attempts = << >>
    /\ purges = << >>
    /\ pre_build = inst
    /\ verdict = NoReason
    /\ fresh = << >>
    /\ prior = [p \in 1..(Len(c) * Len(PYTHONS)) |-> "unresolved"]
    /\ run = r
    /\ before = << >>
    /\ NoVerifier
    /\ expected_archs = NoExpected
    /\ NoTools

Init ==
    \E h \in {"linux", "darwin"} :
      /\ host = h
      /\ host_platforms = HostPlatforms(h)
      /\ \E c \in Manifests, lines \in Catalogs,
            inst \in {{"libc", "libicu"}, {"libc", "libicu", "libxml"}} :
           /\ Start(h, c, lines, inst, 1)
           /\ environ = HostEnv
           /\ env_entry = HostEnv

\* shutil.copy(file, dest): a file of the same name is overwritten
Copy(dir, f) == {g \in dir : g.fn # f.fn} \cup {f}

\* an exception leaves main: the process exits with a non-zero status
Abort(e) ==
    /\ exc' = e
    /\ pc' = "fatal"
    /\ ret' = 1
    /\ status' = [status EXCEPT ![pair] = "fatal"]

\* main, lines 637-648: the checks at the top of the loop body
Loop ==
    /\ pc = "loop"
    /\ pair <= NPairs
    /\ LET package == PairPackage(pair)
           python == PairPython(pair) IN
       \/ /\ satisfied_by(package, internal_wheels, python.tags)
          /\ status' = [status EXCEPT ![pair] = "satisfied"]
          /\ pair' = pair + 1
          /\ UNCHANGED <<pc, opt, tmpdir, attempts>>
       \/ /\ ~satisfied_by(package, internal_wheels, python.tags)
          /\ ~SpecifierContains(package.python_versions, python)
          /\ status' = [status EXCEPT ![pair] = "excluded"]
          /\ pair' = pair + 1
          /\ UNCHANGED <<pc, opt, tmpdir, attempts>>
       \/ /\ ~satisfied_by(package, internal_wheels, python.tags)
          /\ SpecifierContains(package.python_versions, python)
          /\ satisfied_by(package, built, python.tags)
          /\ status' = [status EXCEPT ![pair] = "just built"]
          /\ pair' = pair + 1
          /\ UNCHANGED <<pc, opt, tmpdir, attempts>>
       \/ /\ ~satisfied_by(package, internal_wheels, python.tags)
          /\ SpecifierContains(package.python_versions, python)
          /\ ~satisfied_by(package, built, python.tags)
          /\ status' = [status EXCEPT ![pair] = "downloading"]
          /\ pc' = "download"
          /\ opt' = 1
          /\ tmpdir' = {}
          /\ attempts' = << >>
          /\ UNCHANGED pair
    /\ UNCHANGED <<environ, before, env_entry, dist, file, wheel_tags,
                   to_check, checking, validated, expected_archs, host_platforms, ini, section, made,
                   rets, deps, tree, packages, site,
                   host, cfg, catalog, internal_wheels, built, dest, acquired,
                   sdist, wheel, installed, installed_before, scope,
                   apt_updated, exc, fatal, ret, purges, pre_build, verdict, fresh, prior, run>>

\* main, line 658
Return ==
    /\ pc = "loop"
    /\ pair > NPairs
    /\ pc' = "done"
    /\ ret' = 0
    /\ UNCHANGED <<environ, before, env_entry, dist, file, wheel_tags,
                   to_check, checking, validated, expected_archs, host_platforms, ini, section, made,
                   rets, deps, tree, packages, site,
                   host, cfg, catalog, internal_wheels, built, pair, opt,
                   tmpdir, dest, acquired, sdist, wheel, installed,
                   installed_before, scope, apt_updated, exc, fatal, status,
                   attempts, purges, pre_build, verdict, fresh, prior, run>>

\* the two strategies in the other order
StrategiesAnyFirst == <<"any", "arch">>

\* the strategies of _download, line 400: () and ("--platform=any",)
Strategies == <<"arch", "any">>

\* _build entered as soon as one strategy has yielded nothing
BuildAtOnce ==
    /\ pc' = "install"
    /\ status' = [status EXCEPT ![pair] = "building"]
    /\ UNCHANGED opt

\* the loop falls through to the next strategy, or _download returns None
\* and main calls _build (lines 400, 426-427, 653-654)
NextStrategy ==
    IF opt < Len(Strategies)
    THEN /\ opt' = opt + 1
         /\ pc' = "download"
         /\ UNCHANGED status
    ELSE /\ pc' = "install"
         /\ status' = [status EXCEPT ![pair] = "building"]
         /\ UNCHANGED opt

\* one entry of the history of _download
Attempt(strategy, result, f) ==
    [pair |-> pair, strategy |-> strategy, result |-> result, file |-> f]

\* the rejected file left where it is
RemoveNothing(dir, f) == dir

\* os.remove(filename_full), line 420
Remove(dir, f) == dir \ {f}

\* _download, lines 400-414: the pip download call of the current strategy
Download ==
    /\ pc = "download"
    /\ \/ \* pip exits non-zero: the loop goes on
          /\ attempts' = Append(attempts, Attempt(Strategies[opt], "failed", NoFile))
          /\ NextStrategy
          /\ UNCHANGED tmpdir
       \/ \* pip exits zero, having left a wheel in tmpdir
          \E f \in Candidates(Strategies[opt], PairPackage(pair), PairPython(pair)) :
            /\ attempts' = Append(attempts, Attempt(Strategies[opt], "fetched", f))
            /\ tmpdir' = tmpdir \cup {f}
            /\ pc' = "check arch"
            /\ UNCHANGED <<opt, status>>
    /\ UNCHANGED <<environ, before, env_entry, dist, file, wheel_tags,
                   to_check, checking, validated, expected_archs, host_platforms, ini, section, made,
                   rets, deps, tree, packages, site,
                   host, cfg, catalog, internal_wheels, built, pair, dest,
                   acquired, sdist, wheel, installed, installed_before, scope,
                   apt_updated, exc, fatal, ret, purges, pre_build, verdict,
                   fresh, prior, run>>

\* the last attempt, with its outcome filled in
Outcome(result) ==
    [attempts EXCEPT ![Len(attempts)].result = result]

\* _download, lines 415-425: (filename,) = os.listdir(tmpdir), the
\* architecture check, and what follows from its result; the temporary
\* directory is gone once _download is left
CheckArch ==
    /\ pc = "check arch"
    /\ \/ /\ Cardinality(tmpdir) # 1
          /\ attempts' = Outcome("raised")
          /\ tmpdir' = {}
          /\ Abort("ValueError")
          /\ UNCHANGED <<opt, dest, acquired, verdict>>
       \/ /\ Cardinality(tmpdir) = 1
          /\ LET filename_full == CHOOSE f \in tmpdir : TRUE
                 arch_reason == _check_arch(filename_full) IN
             /\ verdict' = arch_reason
             /\ \/ /\ arch_reason.kind = "raise"
                   /\ attempts' = Outcome("raised")
                   /\ tmpdir' = {}
                   /\ Abort("AssertionError")
                   /\ UNCHANGED <<opt, dest, acquired>>
                \/ /\ arch_reason.kind = "reason"
                   /\ attempts' = Outcome("rejected")
                   /\ tmpdir' = Remove(tmpdir, filename_full)
                   /\ NextStrategy
                   /\ UNCHANGED <<dest, acquired, exc, ret>>
                \/ /\ arch_reason.kind = "none"
                   /\ attempts' = Outcome("accepted")
                   /\ tmpdir' = {}
                   /\ dest' = Copy(dest, filename_full)
                   /\ acquired' = filename_full.fn
                   /\ pc' = "record downloaded"
                   /\ UNCHANGED <<opt, status, exc, ret>>
    /\ UNCHANGED <<environ, before, env_entry, dist, file, wheel_tags,
                   to_check, checking, validated, expected_archs, host_platforms, ini, section, made,
                   rets, deps, tree, packages, site,
                   host, cfg, catalog, internal_wheels, built, pair, sdist,
                   wheel, installed, installed_before, scope, apt_updated,
                   fatal, purges, pre_build, fresh, prior, run>>

\* main, lines 650-652
RecordDownloaded ==
    /\ pc = "record downloaded"
    /\ built' = _add_wheel(built, acquired)
    /\ status' = [status EXCEPT ![pair] = "downloaded"]
    /\ pair' = pair + 1
    /\ pc' = "loop"
    /\ tmpdir' = {}
    /\ acquired' = NoFile.fn
    /\ attempts' = << >>
    /\ verdict' = NoReason
    /\ UNCHANGED <<environ, before, env_entry, dist, file, wheel_tags,
                   to_check, checking, validated, expected_archs, host_platforms, ini, section, made,
                   rets, deps, tree, packages, site,
                   host, cfg, catalog, internal_wheels, opt, dest, sdist,
                   wheel, installed, installed_before, scope, apt_updated,
                   exc, fatal, ret, purges, pre_build, fresh, prior, run>>

-----------------------------------------------------------------------------
(* The Builder: build._build and the scoped system-dependency install *)

\* what plat.install(package) installs: apt_requires or brew_requires
Requires(package) ==
    IF host = "linux" THEN package.apt_requires ELSE package.brew_requires

\* an error inside the `with` block of _build unwinds through the scopes
Unwind(e) ==
    /\ exc' = e
    /\ pc' = "teardown"

\* _build, line 560: entering plat.install(package), that is _linux_install
\* with _apt_install (lines 254-274, 282-287) or _darwin_install with
\* _brew_install (lines 148-171, 182-187), up to the yield
InstallEnter ==
    /\ pc = "install"
    /\ pre_build' = installed
    /\ LET requires == Requires(PairPackage(pair)) IN
       \/ \* nothing declared: the ExitStack stays empty
          /\ requires = << >>
          /\ pc' = "prebuild"
          /\ UNCHANGED <<installed, installed_before, scope, apt_updated,
                         exc, ret, status>>
       \/ \* _apt_update fails (it is only run once per process)
          /\ requires # << >>
          /\ host = "linux"
          /\ ~apt_updated
          /\ Abort("CalledProcessError")
          /\ UNCHANGED <<installed, installed_before, scope, apt_updated>>
       \/ \* the install command fails, having installed part of the set
          /\ requires # << >>
          /\ \E part \in SUBSET InstallSet(requires) :
               /\ part # InstallSet(requires)
               /\ installed' = installed \cup part
          /\ installed_before' = installed
          /\ apt_updated' = (host = "linux")
          /\ Abort("CalledProcessError")
          /\ UNCHANGED scope
       \/ \* brew install succeeds, `brew --prefix` fails
          /\ requires # << >>
          /\ host = "darwin"
          /\ installed' = installed \cup InstallSet(requires)
          /\ installed_before' = installed
          /\ Abort("CalledProcessError")
          /\ UNCHANGED <<scope, apt_updated>>
       \/ \* the scope is entered
          /\ requires # << >>
          /\ installed' = installed \cup InstallSet(requires)
          /\ installed_before' = installed
          /\ apt_updated' = (host = "linux")
          /\ scope' = "entered"
          /\ pc' = "prebuild"
          /\ UNCHANGED <<exc, ret, status>>
    /\ UNCHANGED <<environ, before, env_entry, dist, file, wheel_tags,
                   to_check, checking, validated, expected_archs, host_platforms, ini, section, made,
                   rets, deps, tree, packages, site,
                   host, cfg, catalog, internal_wheels, built, pair, opt,
                   tmpdir, dest, acquired, sdist, wheel, fatal, attempts,
                   purges, verdict, fresh, prior, run>>

\* _build, line 560: entering _prebuild (lines 446-496), up to the yield
Prebuild ==
    /\ pc = "prebuild"
    /\ env_entry' = environ
    /\ \/ /\ PairPackage(pair).custom_prebuild = << >>
          /\ pc' = "sdist"
          /\ UNCHANGED <<exc, environ, before>>
       \/ \* the custom_prebuild command succeeds
          /\ PairPackage(pair).custom_prebuild # << >>
          /\ before' = <<environ>>
          /\ environ' = _prebuild_update(environ)
          /\ pc' = "sdist"
          /\ UNCHANGED exc
       \/ \* the custom_prebuild command fails
          /\ PairPackage(pair).custom_prebuild # << >>
          /\ Unwind("CalledProcessError")
          /\ UNCHANGED <<environ, before>>
    /\ UNCHANGED <<dist, file, wheel_tags, to_check, checking, validated, expected_archs, host_platforms, ini, section, made,
                   rets, deps, tree, packages, site,
                   host, cfg, catalog, internal_wheels, built, pair, opt,
                   tmpdir, dest, acquired, sdist, wheel, installed,
                   installed_before, scope, apt_updated, fatal, ret, status,
                   attempts, purges, pre_build, verdict, fresh, prior, run>>

\* _build, lines 562-575: pip download of the source distribution
SdistDownload ==
    /\ pc = "sdist"
    /\ \/ /\ \E sd \in Sdists(PairPackage(pair)) : sdist' = sd
          /\ pc' = "wheel"
          /\ UNCHANGED exc
       \/ /\ Unwind("CalledProcessError")
          /\ UNCHANGED sdist
    /\ UNCHANGED <<environ, before, env_entry, dist, file, wheel_tags,
                   to_check, checking, validated, expected_archs, host_platforms, ini, section, made,
                   rets, deps, tree, packages, site,
                   host, cfg, catalog, internal_wheels, built, pair, opt,
                   tmpdir, dest, acquired, wheel, installed,
                   installed_before, scope, apt_updated, fatal, ret, status,
                   attempts, purges, pre_build, verdict, fresh, prior, run>>

\* _build, lines 577-594: pip wheel against the internal index
PipWheel ==
    /\ pc = "wheel"
    /\ \/ /\ \E w \in BuildProducts(PairPackage(pair), PairPython(pair)) : wheel' = w
          /\ pc' = "check"
          /\ UNCHANGED exc
       \/ /\ Unwind("CalledProcessError")
          /\ UNCHANGED wheel
    /\ UNCHANGED <<environ, before, env_entry, dist, file, wheel_tags,
                   to_check, checking, validated, expected_archs, host_platforms, ini, section, made,
                   rets, deps, tree, packages, site,
                   host, cfg, catalog, internal_wheels, built, pair, opt,
                   tmpdir, dest, acquired, sdist, installed,
                   installed_before, scope, apt_updated, fatal, ret, status,
                   attempts, purges, pre_build, verdict, fresh, prior, run>>

\* _build, lines 596-605: the expected-binary check and the purelib copy
BinaryCheck ==
    /\ pc = "check"
    /\ LET package == PairPackage(pair)
           likely_binary_reason == _likely_binary(sdist, package.likely_binary_ignore) IN
       \/ /\ likely_binary_reason # NoBinary
          /\ ~_produced_binary(wheel)
          /\ fatal' = [name |-> package.name, version |-> package.version,
                       reason |-> likely_binary_reason]
          /\ Unwind("SystemExit")
          /\ UNCHANGED <<dest, acquired>>
       \/ /\ ~(likely_binary_reason # NoBinary /\ ~_produced_binary(wheel))
          /\ EndsWithAny(wheel.fn)
          /\ dest' = Copy(dest, wheel)
          /\ acquired' = wheel.fn
          /\ pc' = "teardown"
          /\ UNCHANGED <<exc, fatal>>
       \/ /\ ~(likely_binary_reason # NoBinary /\ ~_produced_binary(wheel))
          /\ ~EndsWithAny(wheel.fn)
          /\ pc' = "repair"
          /\ UNCHANGED <<dest, acquired, exc, fatal>>
    /\ UNCHANGED <<environ, before, env_entry, dist, file, wheel_tags,
                   to_check, checking, validated, expected_archs, host_platforms, ini, section, made,
                   rets, deps, tree, packages, site,
                   host, cfg, catalog, internal_wheels, built, pair, opt,
                   tmpdir, sdist, wheel, installed, installed_before, scope,
                   apt_updated, ret, status, attempts, purges, pre_build, verdict, fresh, prior, run>>

\* _build, lines 606-611: plat.repair_wheel and the copy of its output
Repair ==
    /\ pc = "repair"
    /\ \/ /\ dest' = Copy(dest, Repaired(wheel))
          /\ acquired' = Repaired(wheel).fn
          /\ pc' = "teardown"
          /\ UNCHANGED exc
       \/ /\ Unwind("CalledProcessError")
          /\ UNCHANGED <<dest, acquired>>
    /\ UNCHANGED <<environ, before, env_entry, dist, file, wheel_tags,
                   to_check, checking, validated, expected_archs, host_platforms, ini, section, made,
                   rets, deps, tree, packages, site,
                   host, cfg, catalog, internal_wheels, built, pair, opt,
                   tmpdir, sdist, wheel, installed, installed_before, scope,
                   apt_updated, fatal, ret, status, attempts, purges,
                   pre_build, verdict, fresh, prior, run>>

\* the exception swallowed: _build returns as if it had succeeded
LeaveRecording(e) ==
    /\ pc' = "record built"
    /\ UNCHANGED <<exc, ret, status>>

\* leaving the `with` block of _build: the finally clause of _prebuild
\* (lines 497-500), then the finally clause of _apt_install
\* (lines 275-279) or _brew_install (lines 172-179), then either the
\* exception leaves main or _build returns the filename
Leave(e) ==
    IF e # "none"
    THEN /\ exc' = e
         /\ pc' = "fatal"
         /\ ret' = 1
         /\ status' = [status EXCEPT ![pair] = "fatal"]
    ELSE /\ pc' = "record built"
         /\ UNCHANGED <<exc, ret, status>>

\* everything installed taken for new
all_installed(now, earlier) == now

\* newly_installed = _linux_installed_packages() - installed_before
newly_installed(now, earlier) == now \ earlier

Teardown ==
    /\ pc = "teardown"
    /\ environ' = _prebuild_finally(environ, before)
    /\ before' = << >>
    /\ LET newly == newly_installed(installed, installed_before)
           Purge(ok) == [cmd |-> newly, at |-> installed,
                         before |-> installed_before, ok |-> ok] IN
       \/ /\ scope # "entered"
          /\ Leave(exc)
          /\ UNCHANGED <<installed, scope, purges>>
       \/ /\ scope = "entered"
          /\ newly = {}
          /\ scope' = "left"
          /\ Leave(exc)
          /\ UNCHANGED <<installed, purges>>
       \/ /\ scope = "entered"
          /\ newly # {}
          /\ scope' = "left"
          /\ \/ /\ installed' = installed \ newly
                /\ purges' = Append(purges, Purge(TRUE))
                /\ Leave(exc)
             \/ /\ UNCHANGED installed
                /\ purges' = Append(purges, Purge(FALSE))
                /\ Leave("CalledProcessError")
    /\ UNCHANGED <<env_entry, dist, file, wheel_tags, to_check, checking, validated,
                   expected_archs, host_platforms, ini, section, made,
                   rets, deps, tree, packages, site,
                   host, cfg, catalog, internal_wheels, built, pair, opt,
                   tmpdir, dest, acquired, sdist, wheel, installed_before,
                   apt_updated, fatal, attempts, pre_build, verdict, fresh, prior, run>>

\* main, lines 654-656
RecordBuilt ==
    /\ pc = "record built"
    /\ built' = _add_wheel(built, acquired)
    /\ status' = [status EXCEPT ![pair] = "built"]
    /\ pair' = pair + 1
    /\ pc' = "loop"
    /\ scope' = "out"
    /\ sdist' = NoSdist
    /\ wheel' = NoFile
    /\ acquired' = NoFile.fn
    /\ attempts' = << >>
    /\ installed_before' = {}
    /\ purges' = << >>
    /\ pre_build' = installed
    /\ verdict' = NoReason
    /\ UNCHANGED <<environ, before, env_entry, dist, file, wheel_tags,
                   to_check, checking, validated, expected_archs, host_platforms, ini, section, made,
                   rets, deps, tree, packages, site,
                   host, cfg, catalog, internal_wheels, opt, tmpdir, dest,
                   installed, apt_updated, exc, fatal, ret, fresh, prior, run>>

-----------------------------------------------------------------------------
(* Publication and re-invocation *)

\* make_index.main, lines 65-104: the new catalog is the previous lines
\* followed by one line per file of the dist tree, in the order of the
\* sorted paths (here a fixed enumeration); a file already listed aborts
\* the run
NewLines(files) ==
    CHOOSE s \in [1..Cardinality(files) -> {f.fn : f \in files}] :
        Range(s) = {f.fn : f \in files}

Publish ==
    /\ pc = "done"
    /\ dest # {}
    /\ \A f \in dest : f.fn \notin Range(catalog)
    /\ catalog' = catalog \o NewLines(dest)
    /\ fresh' = NewLines(dest)
    /\ pc' = "published"
    /\ UNCHANGED <<environ, before, env_entry, dist, file, wheel_tags,
                   to_check, checking, validated, expected_archs, host_platforms, ini, section, made,
                   rets, deps, tree, packages, site,
                   host, cfg, internal_wheels, built, pair, opt, tmpdir,
                   dest, acquired, sdist, wheel, installed, installed_before,
                   scope, apt_updated, exc, fatal, ret, status, attempts,
                   purges, pre_build, verdict, prior, run>>

\* main is invoked again, in a fresh process with an empty --dest, on the
\* same manifest: lines 631-636
Rerun ==
    /\ pc \in {"done", "published"}
    /\ run < MaxRuns
    /\ internal_wheels' = _internal_wheels(catalog)
    /\ built' = EmptyDict
    /\ pair' = 1
    /\ pc' = "loop"
    /\ dest' = {}
    /\ ret' = -1
    /\ status' = [p \in DOMAIN status |-> "unresolved"]
    /\ fresh' = IF pc = "published" THEN fresh ELSE << >>
    /\ prior' = status
    /\ run' = run + 1
    /\ UNCHANGED <<environ, before, env_entry, dist, file, wheel_tags,
                   to_check, checking, validated, expected_archs, host_platforms, ini, section, made,
                   rets, deps, tree, packages, site,
                   host, cfg, catalog, opt, tmpdir, acquired, sdist, wheel,
                   installed, installed_before, scope, apt_updated, exc,
                   fatal, attempts, purges, pre_build, verdict>>

Next ==
    \/ Loop
    \/ Return
    \/ Download
    \/ CheckArch
    \/ RecordDownloaded
    \/ InstallEnter
    \/ Prebuild
    \/ SdistDownload
    \/ PipWheel
    \/ BinaryCheck
    \/ Repair
    \/ Teardown
    \/ RecordBuilt
    \/ Publish
    \/ Rerun

Spec == Init /\ [][Next]_vars

-----------------------------------------------------------------------------
(* The helpers on their own: _check_arch applied to one wheel, and          *)
(* Package.satisfied_by applied to one index                                *)

\* the variables main has not touched yet
Idle(h, c, lines) ==
    /\ host = h
    /\ cfg = c
    /\ catalog = lines
    /\ built = EmptyDict
    /\ opt = 1
    /\ tmpdir = {}
    /\ dest = {}
    /\ acquired = NoFile.fn
    /\ sdist = NoSdist
    /\ installed = {}
    /\ installed_before = {}
    /\ scope = "out"
    /\ apt_updated = FALSE
    /\ exc = "none"
    /\ fatal = NoFatal
    /\ ret = -1
    /\ status = [p \in 1..(Len(c) * Len(PYTHONS)) |-> "unresolved"]
    /\ attempts = << >>
    /\ purges = << >>
    /\ pre_build = {}
    /\ verdict = NoReason
    /\ fresh = << >>
    /\ prior = [p \in 1..(Len(c) * Len(PYTHONS)) |-> "unresolved"]
    /\ run = 1
    /\ environ = HostEnv
    /\ before = << >>
    /\ env_entry = HostEnv
    /\ expected_archs = NoExpected

\* the same, with no maintenance tool run
Untouched(h, c, lines) == Idle(h, c, lines) /\ NoTools

\* platform tags a wheel filename may carry, segment by segment
PlatformTags ==
    {<<AnyPlat>>,
     <<Plat("manylinux2014", "x86_64")>>,
     <<Plat("manylinux2014", "aarch64")>>,
     <<Plat("manylinux_2_17", "x86_64"), Plat("manylinux2014", "x86_64")>>,
     <<Plat("manylinux2014", "x86_64"), Plat("manylinux2014", "aarch64")>>,
     <<Plat("macosx_11_0", "arm64")>>,
     <<Plat("macosx_10_9", "intel")>>,
     <<Plat("macosx_11_0", "universal2")>>,
     <<Plat("macosx_10_9", "x86_64"), Plat("macosx_11_0", "arm64")>>,
     <<Plat("win", "amd64")>>,
     <<Plat("manylinux2014", "x86_64"), Plat("win", "amd64")>>}

\* members a wheel archive may hold
Binaries ==
    {"elf-x86_64", "elf-aarch64", "elf-i386", "macho-arm64", "macho-fat"}

Members ==
    {PyFile, Member("data/scripts", "", TRUE, "text"),
     Member("data/scripts", ".py", FALSE, "text")}
      \cup {Lib(b) : b \in Binaries}
      \cup {TestLib("elf-aarch64"), TestLib("macho-x86_64"),
            Launcher("elf-x86_64"), Launcher("macho-arm64"),
            Member("pkg", ".dylib", FALSE, "macho-x86_64"),
            Member("pkg", ".so.1", FALSE, "elf-aarch64")}

SeqsUpTo(S, n) == UNION {[1..k -> S] : k \in 0..n}

ArchInputs ==
    {WheelFile(Filename("pkg", "1", {"cp311"}, "cp311", plats), ms) :
        plats \in PlatformTags,
        ms \in SeqsUpTo(Members, MaxMembers)}

InitArch ==
    \E h \in {"linux", "darwin"}, w \in ArchInputs :
      /\ host_platforms = HostPlatforms(h)
      /\ Untouched(h, <<SecFoo>>, << >>)
      /\ NoVerifier
      /\ internal_wheels = EmptyDict
      /\ pair = 1
      /\ wheel = w
      /\ pc = "_check_arch"

\* _check_arch(filename), lines 362-390
ApplyCheckArch ==
    /\ pc = "_check_arch"
    /\ verdict' = _check_arch(wheel)
    /\ pc' = "returned"
    /\ UNCHANGED <<environ, before, env_entry, dist, file, wheel_tags,
                   to_check, checking, validated, expected_archs, host_platforms, ini, section, made,
                   rets, deps, tree, packages, site,
                   host, cfg, catalog, internal_wheels, built, pair, opt,
                   tmpdir, dest, acquired, sdist, wheel, installed,
                   installed_before, scope, apt_updated, exc, fatal, ret,
                   status, attempts, purges, pre_build, fresh, prior, run>>

NextArch == ApplyCheckArch

SpecArch == InitArch /\ [][NextArch]_vars

\* the lines a catalog may hold
IndexNames ==
    {PureName("foo", "1"), PureName("foo", "2"), PureName("my_pkg", "1"),
     ExactName("bar", "2", pythons[1], PublicPlat),
     ExactName("bar", "2", pythons[2], Plat("linux", "x86_64")),
     ExactName("bar", "1", pythons[2], PublicPlat),
     Filename("bar", "2", {"cp311"}, "abi3", <<PublicPlat>>),
     Filename("my_pkg", "1", {"py2", "py3"}, "none", <<AnyPlat>>)}

InitIndex ==
    \E h \in {"linux", "darwin"} :
      /\ host = h
      /\ host_platforms = HostPlatforms(h)
      /\ \E sec \in Sections, lines \in SeqsUpTo(IndexNames, MaxLines),
            p \in DOMAIN PYTHONS :
           /\ Untouched(h, <<sec>>, lines)
           /\ NoVerifier
           /\ internal_wheels = _internal_wheels(lines)
           /\ pair = p
           /\ wheel = NoFile
           /\ pc = "satisfied_by"

\* package.satisfied_by(internal_wheels, python.tags), lines 77-86
ApplySatisfiedBy ==
    /\ pc = "satisfied_by"
    /\ status' = [status EXCEPT ![pair] =
                     IF satisfied_by(PairPackage(pair), internal_wheels,
                                     PairPython(pair).tags)
                     THEN "satisfied" ELSE "not satisfied"]
    /\ pc' = "returned"
    /\ UNCHANGED <<environ, before, env_entry, dist, file, wheel_tags,
                   to_check, checking, validated, expected_archs, host_platforms, ini, section, made,
                   rets, deps, tree, packages, site,
                   host, cfg, catalog, internal_wheels, built, pair, opt,
                   tmpdir, dest, acquired, sdist, wheel, installed,
                   installed_before, scope, apt_updated, exc, fatal, ret,
                   attempts, purges, pre_build, verdict, fresh, prior, run>>

NextIndex == ApplySatisfiedBy

SpecIndex == InitIndex /\ [][NextIndex]_vars

\* the platform identifiers a host may report
PlatformUniverse ==
    {Plat("linux", "x86_64"), Plat("linux", "aarch64"),
     Plat("manylinux2014", "x86_64"), Plat("manylinux_2_28", "aarch64"),
     Plat("musllinux_1_1", "x86_64"), Plat("macosx_11_0", "arm64")}

\* the lines of a catalog of wheels of bar 2 built for the second interpreter
TagNames ==
    {ExactName("bar", "2", [version |-> PYTHONS[2]], Plat("linux", "x86_64")),
     ExactName("bar", "2", [version |-> PYTHONS[2]], Plat("linux", "aarch64")),
     ExactName("bar", "2", [version |-> PYTHONS[2]], Plat("manylinux2014", "x86_64")),
     Filename("bar", "2", {"py3"}, "none", <<Plat("linux", "x86_64")>>),
     PureName("bar", "2")}

\* satisfied_by asked of one index on a host reporting any platforms
InitTags ==
    \E platforms \in SeqsUpTo(PlatformUniverse, MaxPlatforms),
       lines \in SeqsUpTo(TagNames, MaxLines), p \in DOMAIN PYTHONS :
      /\ host = "linux"
      /\ host_platforms = platforms
      /\ Untouched("linux", <<SecBar>>, lines)
      /\ NoVerifier
      /\ internal_wheels = _internal_wheels(lines)
      /\ pair = p
      /\ wheel = NoFile
      /\ pc = "satisfied_by"

SpecTags == InitTags /\ [][NextIndex]_vars

\* one package built by the Resolver in each environment the process may
\* inherit
InitEnv ==
    \E h \in {"linux", "darwin"}, sec \in Sections, env \in Environs :
      /\ host_platforms = HostPlatforms(h)
      /\ Start(h, <<sec>>, << >>, {"libc", "libicu"}, 1)
      /\ environ = env
      /\ env_entry = env

SpecEnv == InitEnv /\ [][Next]_vars

-----------------------------------------------------------------------------
(* The Verifier: validate.py *)

\* validate.PYTHONS
validate_PYTHONS == << <<3, 8>>, <<3, 9>>, <<3, 10>> >>

\* the versions a cpXY interpreter tag or a pythonX.Y executable may name:
\* _parse_cp_tag takes one character for the major version
CpVersions == {2, 3} \X (0..13)

\* the interpreter tag cpXY
CpString(v) == "cp" \o ToString(v[1]) \o ToString(v[2])

\* tag.interpreter.startswith("cp"), for the interpreter tags used here
StartsWithCp(interpreter) == \E v \in CpVersions : CpString(v) = interpreter

\* _parse_cp_tag(s): int(s[2]), int(s[3:])
_parse_cp_tag(s) == CHOOSE v \in CpVersions : CpString(v) = s

\* _py_exe(major, minor): f"python{major}.{minor}"
_py_exe(major, minor) == "python" \o ToString(major) \o "." \o ToString(minor)

\* the comparison of version tuples, strict
TupleGT(a, b) == a[1] > b[1] \/ (a[1] = b[1] /\ a[2] > b[2])

\* py >= min_py on (major, minor) tuples
TupleGE(a, b) == a[1] > b[1] \/ (a[1] = b[1] /\ a[2] >= b[2])

\* the decimal digits of a natural number, as character codes
RECURSIVE Digits(_)
Digits(n) == IF n < 10 THEN <<48 + n>> ELSE Digits(n \div 10) \o <<48 + (n % 10)>>

\* the characters of "X.Y" in pythonX.Y
ExeChars(v) == Digits(v[1]) \o <<46>> \o Digits(v[2])

\* the version a pythonX.Y string names
ExeVersion(exe) == CHOOSE v \in CpVersions : _py_exe(v[1], v[2]) = exe

\* s < t for strings, character by character
LexLess(s, t) ==
    \/ Len(s) < Len(t) /\ \A k \in 1..Len(s) : s[k] = t[k]
    \/ \E k \in 1..Len(s) :
         /\ k <= Len(t)
         /\ s[k] < t[k]
         /\ \A j \in 1..(k - 1) : s[j] = t[j]

\* exe1 < exe2 as Python compares str
StrLess(exe1, exe2) == LexLess(ExeChars(ExeVersion(exe1)), ExeChars(ExeVersion(exe2)))

\* tuple(sorted(ret))
RECURSIVE Sorted(_)
Sorted(exes) ==
    IF exes = {} THEN << >>
    ELSE LET least == CHOOSE x \in exes : \A y \in exes \ {x} : StrLess(x, y) IN
         <<least>> \o Sorted(exes \ {least})

\* _pythons_to_check, lines 57-58: no branch for the tag
UnexpectedTag(tag) == ~StartsWithCp(tag[1]) /\ tag[1] \notin {"py2", "py3"}

\* the floor of an abi3 tag added whether supported or not
PythonsForTag_with_floor(tag) ==
    CASE tag[2] = "abi3" /\ StartsWithCp(tag[1]) ->
           LET v == _parse_cp_tag(tag[1]) IN
           {_py_exe(v[1], v[2])} \cup
           {_py_exe(py[1], py[2]) :
               py \in {w \in Range(validate_PYTHONS) : TupleGE(w, v)}}
      [] tag[2] # "abi3" /\ StartsWithCp(tag[1]) ->
           LET v == _parse_cp_tag(tag[1]) IN {_py_exe(v[1], v[2])}
      [] tag[1] = "py2" -> {}
      [] tag[1] = "py3" -> {_py_exe(py[1], py[2]) : py \in Range(validate_PYTHONS)}

\* _pythons_to_check, lines 48-56: what one tag adds to ret
PythonsForTag(tag) ==
    CASE tag[2] = "abi3" /\ StartsWithCp(tag[1]) ->
           {_py_exe(py[1], py[2]) :
               py \in {v \in Range(validate_PYTHONS) : TupleGE(v, _parse_cp_tag(tag[1]))}}
      [] tag[2] # "abi3" /\ StartsWithCp(tag[1]) ->
           LET v == _parse_cp_tag(tag[1]) IN {_py_exe(v[1], v[2])}
      [] tag[1] = "py2" -> {}
      [] tag[1] = "py3" -> {_py_exe(py[1], py[2]) : py \in Range(validate_PYTHONS)}

NoPythons == [raised |-> TRUE, value |-> << >>]

\* an empty result returned instead of raised
_pythons_to_check_or_empty(tags) ==
    IF \E tag \in tags : UnexpectedTag(tag) THEN NoPythons
    ELSE [raised |-> FALSE, value |-> Sorted(UNION {PythonsForTag(tag) : tag \in tags})]

\* _pythons_to_check(tags): the tuple returned, or an AssertionError
_pythons_to_check(tags) ==
    IF \E tag \in tags : UnexpectedTag(tag) THEN NoPythons
    ELSE LET exes == UNION {PythonsForTag(tag) : tag \in tags} IN
         IF exes = {} THEN NoPythons
         ELSE [raised |-> FALSE, value |-> Sorted(exes)]

\* validate.DATA_SCRIPTS: ^[^/]+.data/scripts/[^/]+$
validate_DATA_SCRIPTS(m) == m.dir = "data/scripts"

\* _validate, lines 155-161: the members extracted for the check
validate_IsArchFile(m) ==
    \/ IsLibrary(m)
    \/ validate_DATA_SCRIPTS(m) /\ ~m.shebang

\* validate._get_archs_linux
_get_archs_linux(m) ==
    CASE m.bin = "elf-x86_64" -> Archs({"x86_64"})
      [] m.bin = "elf-aarch64" -> Archs({"aarch64"})
      [] OTHER -> Raised

\* validate._get_archs_darwin
_get_archs_darwin(m) ==
    CASE m.bin = "macho-x86_64" -> Archs({"x86_64"})
      [] m.bin = "macho-arm64" -> Archs({"arm64"})
      [] m.bin = "macho-fat" -> Archs({"x86_64", "arm64"})
      [] OTHER -> Raised

\* validate._get_archs, chosen on sys.platform
_get_archs(m) == IF host = "darwin" THEN _get_archs_darwin(m) ELSE _get_archs_linux(m)

\* one turn of the loop of validate._expected_archs_for_wheel, lines 93-106
validate_SegmentArchs(plat) ==
    IF plat = AnyPlat THEN Archs({})
    ELSE IF plat.suf = "intel" THEN Archs({"x86_64"})
    ELSE IF plat.suf = "universal2" THEN Archs({"x86_64", "arm64"})
    ELSE IF \E arch \in {"aarch64", "arm64", "x86_64"} : plat.suf = arch
         THEN Archs({plat.suf})
         ELSE Raised

RECURSIVE validate_ExpectedFrom(_, _, _)
validate_ExpectedFrom(plats, k, archs) ==
    IF k > Len(plats) THEN Archs(archs)
    ELSE LET seg == validate_SegmentArchs(plats[k]) IN
         IF seg.raised THEN Raised
         ELSE validate_ExpectedFrom(plats, k + 1, archs \cup seg.archs)

\* validate._expected_archs_for_wheel(filename)
validate_expected_archs_for_wheel(fn) == validate_ExpectedFrom(fn.plats, 1, {})

\* _validate, lines 166-175: the first member whose architectures differ
RECURSIVE validate_CheckFrom(_, _, _)
validate_CheckFrom(arch_files, archs, k) ==
    IF k > Len(arch_files) THEN NoReason
    ELSE LET archs_for_file == _get_archs(arch_files[k]) IN
         IF archs_for_file.raised THEN CheckRaised
         ELSE IF archs_for_file.archs # archs
              THEN [kind |-> "reason", member |-> k, expected |-> archs,
                    received |-> archs_for_file.archs]
              ELSE validate_CheckFrom(arch_files, archs, k + 1)

\* _validate, lines 150-175: "checking arch"
_validate_arch(w) ==
    LET arch_files == SelectSeq(w.members, validate_IsArchFile)
        archs == validate_expected_archs_for_wheel(w.fn) IN
    IF archs.raised THEN CheckRaised ELSE validate_CheckFrom(arch_files, archs.archs, 1)

\* _top_imports(whl): the lines of top_level.txt, which for my_pkg names
\* the package and its extension module
_top_imports(w) ==
    IF w.fn.name = "my_pkg" THEN <<"my_pkg", "_my_pkg">> ELSE <<w.fn.name>>

\* the commands _validate runs after the architecture check, lines 176-219:
\* virtualenv, pip install, then one import for each top-level module
Commands(w) ==
    <<"creating env", "installing">>
        \o [k \in DOMAIN _top_imports(w) |-> "importing " \o _top_imports(w)[k]]

Run(steps, result) == [steps |-> steps, result |-> result]

\* how a call of _validate may go: the steps started, in order, and how the
\* last of them ended; subprocess.check_call raises when a command fails
_validate_runs(w) ==
    CASE _validate_arch(w).kind = "raise" ->
           {Run(<<"checking arch">>, "AssertionError")}
      [] _validate_arch(w).kind = "reason" ->
           {Run(<<"checking arch">>, "SystemExit")}
      [] OTHER ->
           {Run(<<"checking arch">> \o Commands(w), "ok")}
             \cup {Run(<<"checking arch">> \o SubSeq(Commands(w), 1, n),
                        "CalledProcessError") : n \in DOMAIN Commands(w)}

\* how a call of _validate may end
_validate(w) == {call.result : call \in _validate_runs(w)}

\* the variables validate.main does not touch
resolver_vars ==
    <<host, cfg, catalog, internal_wheels, built, pair, opt, tmpdir, dest,
      acquired, sdist, installed, installed_before, scope, apt_updated,
      fatal, status, attempts, purges, pre_build, verdict, fresh, prior, run,
      environ, before, env_entry, expected_archs, host_platforms, ini, section, made,
          rets, deps, tree, packages, site>>

\* an exception leaves validate.main
VerifierAbort(e) ==
    /\ exc' = e
    /\ pc' = "fatal"
    /\ ret' = 1

\* validate.main, lines 238-240: the next filename is parsed and its
\* manifest entry looked up
ParseFilename ==
    /\ pc = "v_file"
    /\ file <= Len(dist)
    /\ LET parsed == parse_wheel_filename(dist[file].fn) IN
       /\ wheel' = dist[file]
       /\ wheel_tags' = parsed.tags
       /\ \/ /\ \E k \in DOMAIN cfg :
                  cfg[k].name = parsed.name /\ cfg[k].version = parsed.version
             /\ pc' = "v_pythons"
             /\ UNCHANGED <<exc, ret>>
          \/ /\ ~\E k \in DOMAIN cfg :
                  cfg[k].name = parsed.name /\ cfg[k].version = parsed.version
             /\ VerifierAbort("KeyError")
    /\ UNCHANGED <<dist, file, to_check, checking, validated>>
    /\ UNCHANGED resolver_vars

\* validate.main, line 241: _pythons_to_check(wheel_tags)
PythonsToCheck ==
    /\ pc = "v_pythons"
    /\ LET returned == _pythons_to_check(wheel_tags) IN
       \/ /\ returned.raised
          /\ VerifierAbort("AssertionError")
          /\ UNCHANGED <<to_check, checking>>
       \/ /\ ~returned.raised
          /\ to_check' = returned.value
          /\ checking' = 1
          /\ pc' = "v_validate"
          /\ UNCHANGED <<exc, ret>>
    /\ UNCHANGED <<dist, file, wheel, wheel_tags, validated>>
    /\ UNCHANGED resolver_vars

\* the loop going on to the next interpreter after a failed validation
ValidateOn ==
    /\ pc = "v_validate"
    /\ \/ /\ checking <= Len(to_check)
          /\ \E call \in _validate_runs(wheel) :
               /\ validated' = Append(validated,
                                      [filename |-> wheel.fn,
                                       python |-> to_check[checking],
                                       steps |-> call.steps,
                                       result |-> call.result])
               /\ checking' = checking + 1
               /\ UNCHANGED <<pc, exc, ret>>
          /\ UNCHANGED file
       \/ /\ checking > Len(to_check)
          /\ file' = file + 1
          /\ pc' = "v_file"
          /\ UNCHANGED <<checking, validated, exc, ret>>
    /\ UNCHANGED <<dist, wheel, wheel_tags, to_check>>
    /\ UNCHANGED resolver_vars

\* validate.main, lines 241-247: one turn of the loop over the interpreters
Validate ==
    /\ pc = "v_validate"
    /\ \/ /\ checking <= Len(to_check)
          /\ \E call \in _validate_runs(wheel) :
               /\ validated' = Append(validated,
                                      [filename |-> wheel.fn,
                                       python |-> to_check[checking],
                                       steps |-> call.steps,
                                       result |-> call.result])
               /\ \/ /\ call.result = "ok"
                     /\ checking' = checking + 1
                     /\ UNCHANGED <<pc, exc, ret>>
                  \/ /\ call.result # "ok"
                     /\ VerifierAbort(call.result)
                     /\ UNCHANGED checking
          /\ UNCHANGED file
       \/ /\ checking > Len(to_check)
          /\ file' = file + 1
          /\ pc' = "v_file"
          /\ UNCHANGED <<checking, validated, exc, ret>>
    /\ UNCHANGED <<dist, wheel, wheel_tags, to_check>>
    /\ UNCHANGED resolver_vars

\* validate.main, line 249
ValidateReturn ==
    /\ pc = "v_file"
    /\ file > Len(dist)
    /\ ret' = 0
    /\ pc' = "v_done"
    /\ UNCHANGED <<dist, file, wheel, wheel_tags, to_check, checking, validated, exc>>
    /\ UNCHANGED resolver_vars

NextValidate ==
    \/ ParseFilename
    \/ PythonsToCheck
    \/ Validate
    \/ ValidateReturn

\* the wheels the dist directory may hold, as sorted(os.listdir) orders them
DistFiles ==
    << WheelFile(Filename("bar", "2", {"cp311"}, "cp311", <<PublicPlat>>),
                 <<PyFile, Lib(NativeBin)>>),
       WheelFile(Filename("bar", "2", {"cp39"}, "abi3", <<PublicPlat>>),
                 <<Lib(NativeBin), TestLib(ForeignBin)>>),
       WheelFile(Filename("foo", "1", {"py2"}, "none", <<AnyPlat>>), <<PyFile>>),
       WheelFile(PureName("foo", "1"), <<PyFile>>),
       WheelFile(Filename("my_pkg", "1", {"py2", "py3"}, "none", <<AnyPlat>>),
                 <<PyFile>>),
       WheelFile(PureName("zzz", "1"), <<PyFile>>) >>

\* the files of DistFiles at the positions I, in order
Listing(I) ==
    [j \in 1..Cardinality(I) |->
        DistFiles[CHOOSE i \in I : Cardinality({x \in I : x < i}) = j - 1]]

InitValidate ==
    \E h \in {"linux", "darwin"} :
      /\ host = h
      /\ host_platforms = HostPlatforms(h)
      /\ \E c \in Manifests, I \in SUBSET (DOMAIN DistFiles) :
           /\ Cardinality(I) <= MaxDist
           /\ Untouched(h, c, << >>)
           /\ internal_wheels = EmptyDict
           /\ pair = 1
           /\ wheel = NoFile
           /\ pc = "v_file"
           /\ dist = Listing(I)
           /\ file = 1
           /\ wheel_tags = {}
           /\ to_check = << >>
           /\ checking = 1
           /\ validated = << >>

SpecValidate == InitValidate /\ [][NextValidate]_vars

\* the tags a tag set given to _pythons_to_check may hold
TagUniverse ==
    {<<"cp37", "abi3", PublicPlat>>, <<"cp39", "abi3", PublicPlat>>,
     <<"cp310", "abi3", PublicPlat>>, <<"cp311", "abi3", PublicPlat>>,
     <<"cp38", "cp38", PublicPlat>>, <<"cp310", "cp310", PublicPlat>>,
     <<"cp311", "cp311", PublicPlat>>, <<"cp39", "none", AnyPlat>>,
     <<"py2", "none", AnyPlat>>, <<"py3", "none", AnyPlat>>,
     <<"py38", "none", AnyPlat>>}

\* the loop body of validate.main for one artifact, for every tag set of
\* at most MaxTags tags
InitPythons ==
    /\ host = "linux"
    /\ host_platforms = HostPlatforms("linux")
    /\ \E tags \in SUBSET TagUniverse :
         /\ Cardinality(tags) <= MaxTags
         /\ Untouched("linux", <<SecFoo>>, << >>)
         /\ internal_wheels = EmptyDict
         /\ pair = 1
         /\ wheel = WheelFile(PureName("foo", "1"), <<PyFile>>)
         /\ pc = "v_pythons"
         /\ dist = <<WheelFile(PureName("foo", "1"), <<PyFile>>)>>
         /\ file = 1
         /\ wheel_tags = tags
         /\ to_check = << >>
         /\ checking = 1
         /\ validated = << >>

NextPythons ==
    \/ PythonsToCheck
    \/ Validate
    \/ ValidateReturn

SpecPythons == InitPythons /\ [][NextPythons]_vars

-----------------------------------------------------------------------------
(* Properties *)

\* some line of `lines` names a wheel of the package's name and version
\* with a tag among `tags`
Listed(package, tags, lines) ==
    \E k \in DOMAIN lines :
       LET w == parse_wheel_filename(lines[k]) IN
       /\ w.name = package.name
       /\ w.version = package.version
       /\ (w.tags \cap tags) # {}

ListedFor(p, lines) == Listed(PairPackage(p), PairPython(p).tags, lines)

\* the catalog as the current run fetched it
Fetched ==
    IF pc = "published" THEN SubSeq(catalog, 1, Len(catalog) - Len(fresh))
    ELSE catalog

BuildPcs == {"install", "prebuild", "sdist", "wheel", "check", "repair", "teardown"}

\* C1: a pair that a wheel listed in the remote catalog satisfies (same
\* name, same version, a tag of the interpreter) is never handed to
\* _download or _build: its decision is never anything but "satisfied";
\* and when every pair is satisfied this way the run downloads nothing,
\* builds nothing, and returns 0.
C1_SatisfiedPairsAreSkipped ==
    /\ \A p \in 1..NPairs :
          ListedFor(p, Fetched) =>
             /\ status[p] \in {"unresolved", "satisfied"}
             /\ (pc \in BuildPcs \cup {"download", "check arch", "record downloaded",
                                      "record built"} => pair # p)
    /\ (\A p \in 1..NPairs : ListedFor(p, Fetched)) =>
          /\ pc \in {"loop", "done"}
          /\ dest = {}
          /\ built = EmptyDict
          /\ attempts = << >>
          /\ (pc = "done" => ret = 0)

C1_Witness ==
    /\ pc = "done"
    /\ ret = 0
    /\ \A p \in 1..NPairs : ListedFor(p, Fetched) /\ status[p] = "satisfied"

\* C2: satisfied_by answers True exactly when the index holds, under the
\* package's name, an entry of the package's version whose tags meet the
\* interpreter's tags; so it answers False when the index has no entry of
\* that name, when every entry of that name has another version, and when
\* the index is empty.
C2_SatisfiedByIffEntry ==
    pc = "returned" =>
      LET package == PairPackage(pair)
          tags == PairPython(pair).tags
          answer == (status[pair] = "satisfied")
          entries == IF package.name \in DOMAIN internal_wheels
                     THEN internal_wheels[package.name] ELSE << >> IN
      /\ answer <=> \E k \in DOMAIN entries :
                       /\ entries[k].version = package.version
                       /\ (entries[k].tags \cap tags) # {}
      /\ (package.name \notin DOMAIN internal_wheels => ~answer)
      /\ ((\A k \in DOMAIN entries : entries[k].version # package.version) => ~answer)
      /\ (internal_wheels = EmptyDict => ~answer)

C2_Witness ==
    /\ pc = "returned"
    /\ status[pair] = "satisfied"
    /\ LET package == PairPackage(pair)
           entries == internal_wheels[package.name] IN
       /\ Len(entries) = 2
       /\ entries[1].version # package.version
       /\ Cardinality(DOMAIN internal_wheels) = 1

\* C3 as stated: on a second run against the same manifest and the same
\* catalog nothing is built; in particular no pair the first run built is
\* built again.
C3_SecondRunBuildsNothing ==
    (run = 2 /\ catalog = Fetched /\ fresh = << >>) =>
       \A p \in 1..NPairs :
          prior[p] = "built" => status[p] \notin {"building", "built"}

\* C3 amended: on a second run against the same manifest, after the wheels
\* of the first run were published to the catalog, no pair that one of the
\* published wheels satisfies is downloaded or built.
C3_SecondRunSkipsPublished ==
    (run = 2 /\ fresh # << >> /\ pc # "published") =>
       \A p \in 1..NPairs :
          ListedFor(p, fresh) =>
             /\ status[p] \in {"unresolved", "satisfied"}
             /\ (pc \notin {"loop", "done"} => pair # p)

C3_Witness ==
    /\ run = 2
    /\ pc = "done"
    /\ fresh # << >>
    /\ \E p \in 1..NPairs :
          prior[p] = "built" /\ ListedFor(p, fresh) /\ status[p] = "satisfied"
    /\ \A p \in 1..NPairs : status[p] \in {"satisfied", "excluded"}

\* C4: for one pair the first download attempt is the architecture-targeted
\* one and the second the --platform=any one; there are at most two; and
\* an attempt that was accepted (or that raised) is the last one.
C4_ArchThenAnyAtMostTwo ==
    /\ Len(attempts) <= 2
    /\ \A k \in DOMAIN attempts :
          /\ attempts[k].strategy = (IF k = 1 THEN "arch" ELSE "any")
          /\ attempts[k].file \in
                {NoFile} \cup (IF k = 1
                               THEN ArchCandidates(PairPackage(pair), PairPython(pair))
                               ELSE AnyCandidates(PairPackage(pair), PairPython(pair)))
          /\ (attempts[k].result \in {"accepted", "raised", "fetched"} => k = Len(attempts))
    /\ (pc = "download" => Len(attempts) < 2)
    /\ (pc = "record downloaded" =>
          attempts # << >> /\ attempts[Len(attempts)].result = "accepted")

C4_Witness ==
    /\ pc = "record downloaded"
    /\ Len(attempts) = 2
    /\ attempts[1].result = "rejected"
    /\ attempts[2].result = "accepted"

\* C5: a candidate the architecture check rejects does not end the run: it
\* is gone from the download directory, it is not copied to dest and not
\* fetched a second time; after a rejected first attempt the second
\* strategy is due; and _build is entered exactly when both attempts
\* failed or were rejected, for the pair the attempts were made for.
C5_RejectionFallsThrough ==
    /\ \A k \in DOMAIN attempts :
          attempts[k].result = "rejected" =>
             /\ attempts[k].file \notin tmpdir
             /\ attempts[k].file \notin dest
             /\ \A j \in DOMAIN attempts : j # k => attempts[j].file # attempts[k].file
             /\ exc \notin {"AssertionError", "ValueError"} \/ k < Len(attempts)
    /\ (Len(attempts) = 1 /\ attempts[1].result = "rejected") =>
          pc = "download" /\ opt = 2 /\ ret = -1 /\ exc = "none"
    /\ (Len(attempts) = 2 /\ \A k \in 1..2 : attempts[k].result \in {"failed", "rejected"}) =>
          /\ pc \in BuildPcs \cup {"fatal", "record built"}
          /\ status[pair] \in {"building", "fatal"}
    /\ pc \in BuildPcs =>
          /\ Len(attempts) = 2
          /\ \A k \in 1..2 :
                attempts[k].result \in {"failed", "rejected"} /\ attempts[k].pair = pair

C5_Witness ==
    /\ pc = "install"
    /\ Len(attempts) = 2
    /\ attempts[1].result = "rejected"
    /\ attempts[1].pair = pair
    /\ status[pair] = "building"

\* a member the architecture check looks at: outside /tests/, and either a
\* shared library or a non-Python script payload without a shebang
Native(m) ==
    \/ m.ext \in {".so", ".dylib", ".so.1"}
    \/ m.dir = "data/scripts" /\ m.ext # ".py" /\ ~m.shebang

Checked(m) == m.dir # "pkg/tests" /\ Native(m)

CheckedMembers(w) == SelectSeq(w.members, Checked)

\* the member's architecture is recognized and every expected one is there
Covers(m, expected) ==
    ~get_archs(m).raised /\ expected \subseteq get_archs(m).archs

\* C6 as stated: _check_arch returns a reason exactly when some checked
\* member's observed set lacks an expected architecture, returns None
\* otherwise, and never raises.
C6_ReasonIffMismatchElseNone ==
    pc = "returned" =>
      LET ms == CheckedMembers(wheel)
          expected == _expected_archs_for_wheel(wheel.fn).archs
          mismatch == \E k \in DOMAIN ms : ~(expected \subseteq get_archs(ms[k]).archs) IN
      /\ (verdict.kind = "reason" <=> mismatch)
      /\ (~mismatch => verdict.kind = "none")

\* C6 amended: with a recognized platform tag, _check_arch returns None
\* when every checked member is recognized and has every expected
\* architecture, and returns a reason naming the first checked member that
\* is not so when that member is a recognized one; it raises when the
\* platform tag is not recognized or when that first member is of an
\* unrecognized architecture. A mismatch is returned, never raised.
C6_ReasonNoneOrRaise ==
    pc = "returned" =>
      LET ms == CheckedMembers(wheel)
          tag == _expected_archs_for_wheel(wheel.fn)
          first == {k \in DOMAIN ms :
                      /\ ~Covers(ms[k], tag.archs)
                      /\ \A j \in 1..(k - 1) : Covers(ms[j], tag.archs)} IN
      /\ verdict.kind = "none" <=> (~tag.raised /\ first = {})
      /\ verdict.kind = "reason" <=>
            (~tag.raised /\ \E k \in first : ~get_archs(ms[k]).raised)
      /\ verdict.kind = "raise" <=>
            (tag.raised \/ \E k \in first : get_archs(ms[k]).raised)
      /\ verdict.kind = "reason" =>
            /\ verdict.member \in first
            /\ verdict.expected = tag.archs
            /\ verdict.received = get_archs(ms[verdict.member]).archs
            /\ ~(verdict.expected \subseteq verdict.received)

C6_Witness ==
    /\ pc = "returned"
    /\ verdict.kind = "reason"
    /\ verdict.member = 2
    /\ Len(wheel.members) = 2
    /\ verdict.received # {}

\* C7 as stated: no wheel in dest, downloaded or built, has a native
\* member whose observed architecture set differs from the set expected
\* from the wheel's platform tag.
C7_AcceptedMeansEqual ==
    \A f \in dest :
       \A k \in DOMAIN f.members :
          Native(f.members[k]) =>
             /\ ~get_archs(f.members[k]).raised
             /\ get_archs(f.members[k]).archs = _expected_archs_for_wheel(f.fn).archs

\* C7 amended: a wheel _download accepts has a recognized platform tag and
\* every checked member of it (native, outside /tests/) has every expected
\* architecture, possibly with others; a wheel _download rejects has a
\* checked member lacking an expected architecture.
C7_AcceptedMeansCovered ==
    \A k \in DOMAIN attempts :
       LET f == attempts[k].file
           tag == _expected_archs_for_wheel(f.fn)
           ms == CheckedMembers(f) IN
       /\ attempts[k].result = "accepted" =>
             /\ ~tag.raised
             /\ \A j \in DOMAIN ms : Covers(ms[j], tag.archs)
             /\ f \in dest
       /\ attempts[k].result = "rejected" =>
             /\ \E j \in DOMAIN ms :
                   ~get_archs(ms[j]).raised /\ ~(tag.archs \subseteq get_archs(ms[j]).archs)
             /\ f \notin dest

C7_Witness ==
    /\ pc = "record downloaded"
    /\ LET f == attempts[Len(attempts)].file IN
       /\ f \in dest
       /\ \E j \in DOMAIN f.members :
             /\ Checked(f.members[j])
             /\ get_archs(f.members[j]).archs # _expected_archs_for_wheel(f.fn).archs

\* the sdist is judged likely to produce a native extension
ExpectsBinary(sd, package) ==
    \/ \E k \in DOMAIN sd.names :
          /\ sd.names[k].ext \in BINARY_EXTS
          /\ sd.names[k].dir \notin {"test", "tests"}
          /\ sd.names[k].path \notin package.likely_binary_ignore
    \/ sd.cffi

HasExtension(w) == \E k \in DOMAIN w.members : w.members[k].ext = ".so"

\* C8: once _build is past its expected-binary check with an sdist that is
\* likely binary and a wheel without a native extension member, SystemExit
\* was raised with a message naming the package, its version and the
\* reason; the build is unwinding or the run has failed (it does not
\* return 0); and the wheel is not repaired, not in dest and not recorded.
C8_ExpectedBinaryIsFatal ==
    (/\ pc \in {"repair", "teardown", "record built", "fatal"}
     /\ wheel # NoFile
     /\ ExpectsBinary(sdist, PairPackage(pair))
     /\ ~HasExtension(wheel)) =>
       /\ fatal.name = PairPackage(pair).name
       /\ fatal.version = PairPackage(pair).version
       /\ fatal.reason.kind \in {"exts", "cffi_modules"}
       /\ (fatal.reason.kind = "exts" =>
             fatal.reason.exts # {} /\ fatal.reason.exts \subseteq BINARY_EXTS)
       /\ pc \in {"teardown", "fatal"}
       /\ exc # "none"
       /\ (pc = "fatal" => ret = 1 /\ status[pair] = "fatal")
       /\ wheel \notin dest
       /\ Repaired(wheel) \notin dest
       /\ acquired = NoFile.fn
       /\ ~satisfied_by(PairPackage(pair), built, PairPython(pair).tags)

C8_Witness ==
    /\ pc = "fatal"
    /\ exc = "SystemExit"
    /\ wheel # NoFile
    /\ ~HasExtension(wheel)
    /\ fatal.name = "bar"
    /\ fatal.reason.exts = {".c"}
    /\ ret = 1

\* C9: every removal command names exactly the packages installed at
\* teardown that were not installed when the scope was entered, and is
\* only run when there is such a package; no package installed before the
\* build is ever missing afterwards; and after a teardown whose command
\* succeeded, or that had nothing to remove, the installed set is the one
\* of the entry.
C9_TeardownRemovesOnlyNew ==
    /\ \A k \in DOMAIN purges :
          /\ purges[k].cmd = purges[k].at \ purges[k].before
          /\ purges[k].cmd # {}
          /\ purges[k].cmd \cap pre_build = {}
    /\ pre_build \subseteq installed
    /\ (scope \in {"entered", "left"} =>
          installed_before = pre_build /\ installed_before \subseteq installed)
    /\ (scope = "left" /\ (purges = << >> \/ purges[Len(purges)].ok) =>
          installed = installed_before)
    /\ (scope = "left" /\ purges # << >> /\ ~purges[Len(purges)].ok =>
          installed = purges[Len(purges)].at)

C9_Witness ==
    /\ scope = "left"
    /\ Len(purges) = 1
    /\ purges[1].ok
    /\ purges[1].cmd = {"libxml"}
    /\ "libicu" \in installed
    /\ installed = installed_before

\* C10 as stated: whenever _build has been left, by returning or by an
\* error at any step (the install command included), no system package
\* installed for that build is still installed.
C10_NothingLeftInstalled ==
    pc \in {"fatal", "record built"} => installed \subseteq pre_build

-----------------------------------------------------------------------------
(* The environment inside and after the _prebuild scope *)

\* the positions of main inside the `with` block of _build
PrebuildBody == {"sdist", "wheel", "check", "repair"}

\* the value derived from the prefix directory, and the separator
PrefixValue(name) ==
    CASE name = "PATH" -> "/tmp/prefix/bin"
      [] name = "CPPFLAGS" -> "-I/tmp/prefix/include"
      [] name = "LDFLAGS" -> "-L/tmp/prefix/lib"
      [] name = "LD_LIBRARY_PATH" -> "/tmp/prefix/lib"
      [] name = "PKG_CONFIG_PATH" -> "/tmp/prefix/lib/pkgconfig"

Separator(name) == IF name \in {"CPPFLAGS", "LDFLAGS"} THEN " " ELSE ":"

-----------------------------------------------------------------------------
(* The interpreters the Verifier checks an artifact on *)

\* _pythons_to_check has returned to validate.main
Returned == pc # "v_pythons" /\ ~(pc = "fatal" /\ exc = "AssertionError")

\* the minor version an interpreter tag cp3Y names
MinorOf(interpreter) ==
    CASE interpreter = "cp37" -> 7
      [] interpreter = "cp38" -> 8
      [] interpreter = "cp39" -> 9
      [] interpreter = "cp310" -> 10
      [] interpreter = "cp311" -> 11

\* the minor versions of the supported interpreters
SupportedMinors == {validate_PYTHONS[k][2] : k \in DOMAIN validate_PYTHONS}

\* the four kinds of tag the Verifier knows
KnownKind(tag) == tag[1] \in {"py2", "py3", "cp37", "cp38", "cp39", "cp310", "cp311"}

\* the minor versions a tag requires
RequiredMinors(tag) ==
    CASE tag[1] = "py2" -> {}
      [] tag[1] = "py3" -> SupportedMinors
      [] tag[1] \notin {"py2", "py3"} /\ tag[2] = "abi3" ->
           {n \in SupportedMinors : n >= MinorOf(tag[1])}
      [] OTHER -> {MinorOf(tag[1])}

RequiredBy(tags) ==
    {"python3." \o ToString(n) : n \in UNION {RequiredMinors(tag) : tag \in tags}}

\* C12: when every tag is an exact CPython, abi3, py3 or py2 tag and one of
\* them requires an interpreter, _pythons_to_check returns, and what it
\* returns holds exactly the interpreters the tags require (the one
\* interpreter of an exact tag, the supported interpreters from the floor
\* of an abi3 tag upwards, every supported interpreter for py3, none for
\* py2), each once, in increasing order of their names
C12_PythonsToCheckIsUnion ==
    /\ Returned =>
         /\ Range(to_check) = RequiredBy(wheel_tags)
         /\ \A i, j \in DOMAIN to_check : i < j => StrLess(to_check[i], to_check[j])
    /\ (pc # "v_pythons" /\ ~Returned) =>
         \/ \E tag \in wheel_tags : ~KnownKind(tag)
         \/ RequiredBy(wheel_tags) = {}

\* an abi3 tag with floor 3.9, an exact tag outside the supported
\* interpreters and a py2 tag gave python3.10, python3.11, python3.9
C12_Witness ==
    /\ pc = "v_validate"
    /\ wheel_tags = {<<"cp39", "abi3", PublicPlat>>, <<"cp311", "cp311", PublicPlat>>,
                     <<"py2", "none", AnyPlat>>}
    /\ to_check = <<"python3.10", "python3.11", "python3.9">>

\* the entry of the manifest a wheel filename belongs to
EntryOf(fn) ==
    CHOOSE sec \in Range(cfg) :
        sec.name = canonicalize_name(fn.name) /\ sec.version = fn.version

\* C13: the Verifier never validates an artifact on an interpreter that the
\* python_versions constraint of the artifact's manifest entry excludes
C13_ValidatedWithinConstraint ==
    \A k \in DOMAIN validated :
        SpecifierContains(EntryOf(validated[k].filename).python_versions,
                          [version |-> ExeVersion(validated[k].python)])

\* C14: when the tag set is empty or holds only py2 tags, _pythons_to_check
\* raises instead of returning an empty tuple, and _validate is not called
\* for the artifact
C14_NoInterpreterRaises ==
    (pc # "v_pythons" /\ \A tag \in wheel_tags : tag[1] = "py2") =>
        /\ pc = "fatal"
        /\ exc = "AssertionError"
        /\ ret = 1
        /\ to_check = << >>
        /\ validated = << >>

\* a tag set of a single py2 tag made validate.main fail
C14_Witness ==
    /\ pc = "fatal"
    /\ exc = "AssertionError"
    /\ wheel_tags = {<<"py2", "none", AnyPlat>>}
    /\ validated = << >>

-----------------------------------------------------------------------------
(* The states a pair passes through *)

\* the download attempts of the current pair all ended without a wheel
DownloadYieldedNothing ==
    /\ Len(attempts) = Len(Strategies)
    /\ \A k \in DOMAIN attempts :
          attempts[k].pair = pair /\ attempts[k].result \in {"failed", "rejected"}

\* a pair is in Building only while _build runs for it, after its download
\* attempts yielded nothing
BuildingAfterDownload ==
    /\ \A p \in DOMAIN status :
          status[p] = "building" => p = pair /\ DownloadYieldedNothing
    /\ pc \in BuildPcs \cup {"record built"} => status[pair] = "building"

\* C15 as stated: every pair main has moved past is Satisfied (by the
\* catalog or by a wheel of this run) or Verified (downloaded or built), the
\* pair an aborted run stopped at is Fatal, and Building comes only after
\* the download attempts yielded nothing
C15_EndsSatisfiedVerifiedOrFatal ==
    /\ \A p \in DOMAIN status :
          p < pair => status[p] \in {"satisfied", "just built", "downloaded", "built"}
    /\ pc = "fatal" => status[pair] = "fatal"
    /\ BuildingAfterDownload

\* C15, amended: ... or Excluded, the state of a pair skipped because the
\* entry's python_versions does not contain the interpreter
C15_EndsSatisfiedExcludedVerifiedOrFatal ==
    /\ \A p \in DOMAIN status :
          /\ p < pair =>
               status[p] \in {"satisfied", "just built", "excluded", "downloaded", "built"}
          /\ status[p] = "fatal" => p = pair /\ pc = "fatal"
          /\ p > pair => status[p] = "unresolved"
    /\ pc = "fatal" => status[pair] = "fatal"
    /\ BuildingAfterDownload

\* a run that returned 0 after building one pair and skipping another as
\* excluded
C15_Witness ==
    /\ pc = "done"
    /\ \E p, q \in DOMAIN status : status[p] = "built" /\ status[q] = "excluded"

-----------------------------------------------------------------------------
(* The first fatal error ends the run *)

\* an exception has been raised and the scopes of _build have been left
Failed == exc # "none" /\ pc # "teardown"

\* C16: once a step of a pair has failed (a subprocess error or the
\* expected-binary failure) the run is over with a non-zero status: the
\* pair is Fatal, no later pair has been looked at, and from then on
\* nothing is downloaded, built or recorded
C16_StopsAtFirstFatal ==
    /\ [](Failed =>
            /\ pc = "fatal"
            /\ ret = 1
            /\ pair \in DOMAIN status
            /\ status[pair] = "fatal"
            /\ \A p \in DOMAIN status : p > pair => status[p] = "unresolved")
    /\ [][Failed =>
            UNCHANGED <<pc, pair, status, built, dest, acquired, attempts, ret>>]_vars

\* the expected-binary failure of a pair that is not the last one
C16_Witness ==
    /\ pc = "fatal"
    /\ exc = "SystemExit"
    /\ fatal.reason # NoBinary
    /\ pair < NPairs
    /\ status[pair + 1] = "unresolved"

-----------------------------------------------------------------------------
(* The wheel indexes during a run *)

\* the (version, tags) entry of a wheel filename
EntryFor(f) ==
    [version |-> f.version,
     tags |-> {<<interp, f.abi, p>> : interp \in f.pys, p \in Range(f.plats)}]

\* index `after` is index `earlier` with one entry appended under the name
\* of f, every other list as it was
AppendedOne(earlier, after, f) ==
    LET name == canonicalize_name(f.name) IN
    /\ DOMAIN after = DOMAIN earlier \cup {name}
    /\ \A n \in DOMAIN earlier : n # name => after[n] = earlier[n]
    /\ after[name] = DictGet(earlier, name) \o <<EntryFor(f)>>

\* the filenames whose entry the in-run index already holds
Recorded ==
    {g.fn : g \in {h \in dest : \E k \in DOMAIN DictGet(built, canonicalize_name(h.fn.name)) :
                                   built[canonicalize_name(h.fn.name)][k] = EntryFor(h.fn)}}

\* C17: within a run the published index is never modified and every change
\* of `built` appends exactly one entry, that of the wheel just acquired,
\* under the wheel's name, leaving every existing entry in place; and
\* adding a filename that was already added changes the answer of no
\* satisfied_by query
C17_BuiltOnlyGrows ==
    /\ [][run' = run =>
            /\ internal_wheels' = internal_wheels
            /\ built' = built \/ AppendedOne(built, built', acquired)]_vars
    /\ [](\A f \in Recorded : \A p \in 1..NPairs :
            satisfied_by(PairPackage(p), _add_wheel(built, f), PairPython(p).tags)
              = satisfied_by(PairPackage(p), built, PairPython(p).tags))

\* two wheels of the same name were recorded one after the other
C17_Witness ==
    /\ pc = "loop"
    /\ \E n \in DOMAIN built : Len(built[n]) = 2 /\ built[n][1] # built[n][2]
    /\ Recorded # {}

-----------------------------------------------------------------------------
(* What the decision for a pair depends on *)

\* some entry of the index has the package's name and version and a tag of
\* the interpreter
InIndex(index, p) ==
    \E k \in DOMAIN DictGet(index, PairPackage(p).name) :
        /\ index[PairPackage(p).name][k].version = PairPackage(p).version
        /\ index[PairPackage(p).name][k].tags \cap PairPython(p).tags # {}

\* the entry's python_versions does not contain the interpreter
Excluded(p) == ~SpecifierContains(PairPackage(p).python_versions, PairPython(p))

\* C18 as stated: the decision for a pair depends on no other pair, so a
\* pair is skipped exactly when the manifest and the catalog alone say so,
\* as it would be were it processed first
C18_DecisionIndependentOfOtherPairs ==
    \A p \in DOMAIN status :
        status[p] \in {"satisfied", "excluded", "just built"} =>
            InIndex(internal_wheels, p) \/ Excluded(p)

\* C18, amended: the decision for a pair depends on the other pairs, but only
\* through the wheels recorded earlier in the run: a pair is skipped when
\* the catalog satisfies it, when its entry excludes the interpreter, or,
\* neither being so, when a wheel recorded for an earlier pair of the same
\* package satisfies it; a pair is handed to _download only when none of
\* the three holds
C18_DecisionDependsOnlyOnBuilt ==
    \A p \in DOMAIN status :
        /\ status[p] = "satisfied" => InIndex(internal_wheels, p)
        /\ status[p] = "excluded" => ~InIndex(internal_wheels, p) /\ Excluded(p)
        /\ status[p] = "just built" =>
              /\ ~InIndex(internal_wheels, p)
              /\ ~Excluded(p)
              /\ InIndex(built, p)
              /\ \E q \in 1..(p - 1) :
                    /\ status[q] \in {"downloaded", "built"}
                    /\ PairPackage(q).name = PairPackage(p).name
        /\ status[p] \in {"downloading", "building"} =>
              ~InIndex(internal_wheels, p) /\ ~Excluded(p) /\ ~InIndex(built, p)
        /\ status[p] \in {"downloaded", "built", "fatal"} =>
              ~InIndex(internal_wheels, p) /\ ~Excluded(p)

\* a pair skipped because of the wheel an earlier pair downloaded, while a
\* later pair of another package is being downloaded
C18_Witness ==
    /\ \E p \in DOMAIN status :
          status[p] = "just built" /\ status[p - 1] = "downloaded"
    /\ pair \in DOMAIN status
    /\ status[pair] = "downloading"

-----------------------------------------------------------------------------
(* The generic linux platform *)

\* the bare linux_<arch> platform strings
BareLinux == {Plat("linux", "x86_64"), Plat("linux", "aarch64")}

\* every wheel the index lists for the package is tagged with bare linux
\* platforms only
OnlyBareLinux(index, name) ==
    \A k \in DOMAIN DictGet(index, name) :
        \A t \in index[name][k].tags : t[3] \in BareLinux

-----------------------------------------------------------------------------
(* The architectures a wheel filename announces *)

\* the segments the platform field of a wheel filename is made of
SegmentUniverse ==
    {AnyPlat, Plat("macosx_11_0", "intel"), Plat("macosx_11_0", "universal2"),
     Plat("macosx_11_0", "arm64"), Plat("macosx_11_0", "x86_64"),
     Plat("manylinux2014", "aarch64"), Plat("manylinux2014", "x86_64"),
     Plat("win", "amd64"), Plat("linux", "i686"), Plat("many", "any")}

\* both copies of _expected_archs_for_wheel given one filename
InitExpected ==
    \E n \in 1..MaxSegments : \E plats \in [1..n -> SegmentUniverse] :
      /\ host = "linux"
      /\ host_platforms = HostPlatforms("linux")
      /\ Untouched("linux", <<SecFoo>>, << >>)
      /\ NoVerifier
      /\ internal_wheels = EmptyDict
      /\ pair = 1
      /\ wheel = WheelFile(Filename("a", "1", {"py3"}, "none", plats), << >>)
      /\ pc = "build._expected_archs_for_wheel"

\* build._expected_archs_for_wheel(filename), lines 341-359
ExpectedBuild ==
    /\ pc = "build._expected_archs_for_wheel"
    /\ expected_archs' =
          [expected_archs EXCEPT !.build = <<_expected_archs_for_wheel(wheel.fn)>>]
    /\ pc' = "validate._expected_archs_for_wheel"
    /\ UNCHANGED <<environ, before, env_entry, dist, file, wheel_tags,
                   to_check, checking, validated, host_platforms, ini, section, made,
                   rets, deps, tree, packages, site,
                   host, cfg, catalog, internal_wheels, built, pair, opt,
                   tmpdir, dest, acquired, sdist, wheel, installed,
                   installed_before, scope, apt_updated, exc, fatal, ret,
                   status, attempts, purges, pre_build, verdict, fresh, prior,
                   run>>

\* validate._expected_archs_for_wheel(filename), lines 90-108
ExpectedValidate ==
    /\ pc = "validate._expected_archs_for_wheel"
    /\ expected_archs' =
          [expected_archs EXCEPT
              !.validate = <<validate_expected_archs_for_wheel(wheel.fn)>>]
    /\ pc' = "returned"
    /\ UNCHANGED <<environ, before, env_entry, dist, file, wheel_tags,
                   to_check, checking, validated, host_platforms, ini, section, made,
                   rets, deps, tree, packages, site,
                   host, cfg, catalog, internal_wheels, built, pair, opt,
                   tmpdir, dest, acquired, sdist, wheel, installed,
                   installed_before, scope, apt_updated, exc, fatal, ret,
                   status, attempts, purges, pre_build, verdict, fresh, prior,
                   run>>

NextExpected == ExpectedBuild \/ ExpectedValidate

SpecExpected == InitExpected /\ [][NextExpected]_vars

\* the architecture suffixes a segment may end in
KnownSuffixes == {"universal2", "intel", "aarch64", "arm64", "x86_64"}

\* a segment the claim gives an architecture set
KnownSegment(seg) == seg = AnyPlat \/ (seg # AnyPlat /\ seg.suf \in KnownSuffixes)

\* the architecture set of one segment
SegmentSet(seg) ==
    IF seg = AnyPlat THEN {}
    ELSE IF seg.suf = "universal2" THEN {"x86_64", "arm64"}
    ELSE IF seg.suf = "intel" THEN {"x86_64"}
    ELSE {seg.suf}

\* the union over the segments, an error when some segment is unknown
UnionOfSegments(plats) ==
    IF \A k \in DOMAIN plats : KnownSegment(plats[k])
    THEN Archs(UNION {SegmentSet(plats[k]) : k \in DOMAIN plats})
    ELSE Raised

\* C20: _expected_archs_for_wheel(filename) is the union over the segments of
\* the platform field of each segment's architecture set (any: none,
\* _universal2: x86_64 and arm64, _intel: x86_64, _aarch64, _arm64, _x86_64:
\* itself), an error when some segment is none of these; the copy in build
\* and the copy in validate give the same result
C20_ExpectedArchsIsUnion ==
    /\ \A r \in Range(expected_archs.build) : r = UnionOfSegments(wheel.fn.plats)
    /\ \A r \in Range(expected_archs.validate) : r = UnionOfSegments(wheel.fn.plats)
    /\ pc = "returned" /\ expected_archs.build # << >>
          => expected_archs.build = expected_archs.validate

\* both copies were given a dotted filename of two segments with different
\* architectures, one of them _intel
C20_Witness ==
    /\ pc = "returned"
    /\ wheel.fn.plats = <<Plat("macosx_11_0", "intel"), Plat("macosx_11_0", "arm64")>>
    /\ expected_archs.build = <<Archs({"x86_64", "arm64"})>>
    /\ expected_archs.validate = <<Archs({"x86_64", "arm64"})>>

-----------------------------------------------------------------------------
(* The interpreters returned and the supported interpreters *)

\* the interpreter is one of validate.PYTHONS
Supported(exe) == ExeVersion(exe) \in Range(validate_PYTHONS)

\* C27 as stated: every interpreter _pythons_to_check returns is one of the
\* supported interpreters PYTHONS
C27_ReturnedAreSupported ==
    Returned => \A exe \in Range(to_check) : Supported(exe)

\* C27, amended: every interpreter _pythons_to_check returns is one of the
\* supported interpreters PYTHONS or the interpreter an exact (not abi3)
\* CPython tag of the tag set names, and the interpreter of every such tag
\* is returned, whether PYTHONS holds it or not
C27_ReturnedAreSupportedOrExact ==
    Returned =>
        /\ \A exe \in Range(to_check) :
              \/ Supported(exe)
              \/ \E tag \in wheel_tags :
                    tag[2] # "abi3" /\ tag[1] = CpString(ExeVersion(exe))
        /\ \A tag \in wheel_tags :
              (tag[2] # "abi3" /\ tag[1] \notin {"py2", "py3"}) =>
                 \E exe \in Range(to_check) : tag[1] = CpString(ExeVersion(exe))

\* an exact tag naming 3.11 and a py3 tag gave the three supported
\* interpreters and python3.11
C27_Witness ==
    /\ pc = "v_validate"
    /\ wheel_tags = {<<"cp311", "cp311", PublicPlat>>, <<"py3", "none", AnyPlat>>}
    /\ to_check = <<"python3.10", "python3.11", "python3.8", "python3.9">>

-----------------------------------------------------------------------------
(* The steps of a validation *)

\* the steps of a validation in the order they are to be taken: the prefix
\* of n steps of architecture check, environment, install, imports
StepsInOrder(steps, fn) ==
    /\ steps # << >>
    /\ steps[1] = "checking arch"
    /\ Len(steps) >= 2 => steps[2] = "creating env"
    /\ Len(steps) >= 3 => steps[3] = "installing"
    /\ Len(steps) <= 3 + Len(_top_imports(WheelFile(fn, << >>)))
    /\ \A k \in 4..Len(steps) :
          steps[k] = "importing " \o _top_imports(WheelFile(fn, << >>))[k - 3]

\* C25: each validation takes its steps in the order architecture check,
\* environment creation, install, import of every top-level module; a
\* validation that succeeds has taken them all; a failing step is the last
\* step of its validation and the last validation of the run, which ends
\* with an error, and nothing is validated afterwards
C25_StepsInOrderFailureAborts ==
    /\ [](\A k \in DOMAIN validated :
            /\ StepsInOrder(validated[k].steps, validated[k].filename)
            /\ validated[k].result = "ok" =>
                  Len(validated[k].steps) =
                      3 + Len(_top_imports(WheelFile(validated[k].filename, << >>)))
            /\ validated[k].result # "ok" =>
                  /\ k = Len(validated)
                  /\ pc = "fatal"
                  /\ exc = validated[k].result
                  /\ ret = 1)
    /\ [][pc = "fatal" => UNCHANGED <<pc, validated, file, checking>>]_vars

\* my_pkg was validated on python3.10, then its second import failed on
\* python3.8, and the run ended there with python3.9 left
C25_Witness ==
    /\ pc = "fatal"
    /\ Len(validated) = 2
    /\ validated[1].result = "ok"
    /\ validated[2].result = "CalledProcessError"
    /\ validated[2].steps = <<"checking arch", "creating env", "installing",
                              "importing my_pkg", "importing _my_pkg">>
    /\ validated[2].python = "python3.8"
    /\ Len(to_check) = 3
    /\ file <= Len(dist)

-----------------------------------------------------------------------------
(* The two architecture checks *)

\* _validate(python=..., filename=...), lines 141-219, given the wheel
\* _check_arch has looked at
ApplyValidate ==
    /\ pc = "returned"
    /\ \E call \in _validate_runs(wheel) :
          validated' = Append(validated,
                              [filename |-> wheel.fn,
                               python |-> _py_exe(3, 10),
                               steps |-> call.steps,
                               result |-> call.result])
    /\ pc' = "validated"
    /\ UNCHANGED <<dist, file, wheel, wheel_tags, to_check, checking, exc, ret>>
    /\ UNCHANGED resolver_vars

NextChecks == ApplyCheckArch \/ ApplyValidate

\* one wheel given to the Acquirer's check, then to the Verifier
SpecChecks == InitArch /\ [][NextChecks]_vars

\* the Verifier's architecture check let the wheel through
VerifierAccepted(v) == v.result \notin {"SystemExit", "AssertionError"}

\* C26: a wheel for which _check_arch returns None passes the architecture
\* check of _validate, and the two checks give the same verdict for every
\* wheel
C26_ChecksAgree ==
    pc = "validated" =>
        \A k \in DOMAIN validated :
            /\ verdict.kind = "none" <=> VerifierAccepted(validated[k])
            /\ verdict.kind = "reason" <=> validated[k].result = "SystemExit"

-----------------------------------------------------------------------------
(* Pairs outside the python_versions constraint *)

\* the interpreter of the pair is not among the versions the entry's
\* python_versions names
OutsideConstraint(p) ==
    LET minor == PYTHONS[((p - 1) % Len(PYTHONS)) + 1][2]
        constraint == PairPackage(p).python_versions IN
    \/ constraint = ">=3.12" /\ minor < 12
    \/ constraint = "<3.13" /\ minor >= 13

\* C28: no download and no build is started for a pair whose interpreter is
\* outside the entry's python_versions; the pair is skipped with nothing
\* recorded, copied or attempted; the catalog is asked first (a pair the
\* catalog satisfies is Satisfied even when outside the constraint) and the
\* in-run index only afterwards (a pair outside the constraint is never
\* "just built")
C28_NoWorkOutsideConstraint ==
    /\ [](\A p \in DOMAIN status : OutsideConstraint(p) =>
            /\ status[p] \in {"unresolved", "satisfied", "excluded"}
            /\ status[p] = "satisfied" => InIndex(internal_wheels, p)
            /\ status[p] = "excluded" => ~InIndex(internal_wheels, p)
            /\ (p < pair /\ InIndex(internal_wheels, p)) => status[p] = "satisfied"
            /\ \A k \in DOMAIN attempts : attempts[k].pair # p)
    /\ [](pc \notin {"loop", "done", "published", "fatal"} =>
            pair \in DOMAIN status /\ ~OutsideConstraint(pair))
    /\ [][(\E p \in DOMAIN status : status'[p] = "excluded" /\ status[p] # "excluded")
            => UNCHANGED <<built, dest, tmpdir, attempts, acquired, pc>>]_vars

\* a pair outside the constraint was skipped although a wheel recorded
\* earlier in the run satisfies it, and the run returned 0
C28_Witness ==
    /\ pc = "done"
    /\ \E p \in DOMAIN status :
          /\ OutsideConstraint(p)
          /\ status[p] = "excluded"
          /\ InIndex(built, p)

-----------------------------------------------------------------------------
(* What a run that returned 0 leaves *)

\* C29: when main has returned 0, every pair whose interpreter is within the
\* entry's python_versions is satisfied by the published wheels or by the
\* wheels recorded during the run; and a download is started for a pair
\* only when no wheel recorded earlier in the run satisfies it
C29_ReturnedZeroAllSatisfied ==
    /\ []((pc = "done" /\ ret = 0) =>
            \A p \in DOMAIN status :
                ~Excluded(p) => InIndex(internal_wheels, p) \/ InIndex(built, p))
    /\ [][\A p \in DOMAIN status :
            (status[p] = "unresolved" /\ InIndex(built, p)) =>
                status'[p] \in {"unresolved", "satisfied", "excluded", "just built"}]_vars

\* main returned 0 after a pair was downloaded, the pair after it was
\* skipped as just built, and a third pair is satisfied by the catalog
C29_Witness ==
    /\ pc = "done"
    /\ ret = 0
    /\ \E p \in DOMAIN status :
          /\ p + 1 \in DOMAIN status
          /\ status[p] = "downloaded"
          /\ status[p + 1] = "just built"
          /\ ~InIndex(internal_wheels, p + 1)
    /\ \E q \in DOMAIN status : status[q] = "satisfied"

-----------------------------------------------------------------------------
(* What is copied to the destination and recorded *)

\* the expected-binary check of _build lets the wheel through: nothing in
\* the sdist makes a binary likely, or the wheel holds an extension module
PassesExpectedBinary(sd, w, package) ==
    \/ _likely_binary(sd, package.likely_binary_ignore) = NoBinary
    \/ \E k \in DOMAIN w.members : w.members[k].ext = ".so"

\* the step copies a downloaded wheel that _check_arch has just accepted
CopiesAccepted ==
    /\ pc = "check arch"
    /\ verdict'.kind = "none"
    /\ \E f \in tmpdir : dest' = Copy(dest, f) /\ acquired' = f.fn

\* the step copies the wheel _build produced, as it is or repaired, after
\* the expected-binary check
CopiesBuilt ==
    /\ pc \in {"check", "repair"}
    /\ PassesExpectedBinary(sdist, wheel, PairPackage(pair))
    /\ \/ dest' = Copy(dest, wheel) /\ acquired' = wheel.fn
       \/ dest' = Copy(dest, Repaired(wheel)) /\ acquired' = Repaired(wheel).fn

\* C30: within a run a file enters the destination only as a downloaded
\* wheel that passed the architecture check or a built wheel that passed
\* the expected-binary check; a candidate the architecture check rejected
\* is neither copied nor recorded; and an entry is added to the in-run index
\* only for a wheel already in the destination
C30_OnlyCheckedWheelsKept ==
    /\ [][(dest' # dest /\ run' = run) => CopiesAccepted \/ CopiesBuilt]_vars
    /\ [][(attempts' # attempts /\ attempts' # << >>
             /\ attempts'[Len(attempts')].result = "rejected")
            => UNCHANGED <<dest, built, acquired>>]_vars
    /\ [](\A k \in DOMAIN attempts : attempts[k].result = "rejected" =>
            /\ attempts[k].file \notin dest
            /\ attempts[k].file.fn # acquired)
    /\ [][(built' # built /\ run' = run) =>
            /\ \E w \in dest : w.fn = acquired
            /\ dest' = dest
            /\ AppendedOne(built, built', acquired)]_vars
    /\ [](\A name \in DOMAIN built : \A k \in DOMAIN built[name] :
            \E w \in dest :
                canonicalize_name(w.fn.name) = name /\ EntryFor(w.fn) = built[name][k])

\* the architecture-specific candidate was rejected, the platform-agnostic
\* one accepted and copied, and it is about to be recorded
C30_Witness ==
    /\ pc = "record downloaded"
    /\ Len(attempts) = 2
    /\ attempts[1].result = "rejected"
    /\ attempts[2].result = "accepted"
    /\ attempts[2].file \in dest
    /\ attempts[1].file \notin dest
    /\ \E w \in dest : w.fn = acquired

-----------------------------------------------------------------------------
(* The manifest entry: build.Package.make *)

\* the variables of the Resolver and the Verifier, which the maintenance
\* tools leave alone
run_vars ==
    <<host, cfg, catalog, internal_wheels, built, pair, opt, tmpdir, dest,
      acquired, sdist, wheel, installed, installed_before, scope,
      apt_updated, exc, fatal, ret, status, attempts, purges, pre_build,
      verdict, fresh, prior, run, environ, before, env_entry, dist, file,
      wheel_tags, to_check, checking, validated, expected_archs,
      host_platforms>>

\* the keys a section may hold, in the order Python sorts str
KeyOrder ==
    <<"apt_packages", "apt_requires", "brew_requires", "custom_prebuild",
      "likely_binary_ignore", "python_versions", "some", "thing",
      "validate_extras", "validate_incorrect_missing_deps",
      "validate_skip_imports">>

\* the keys listed from the last to the first
SortedKeys_descending(S) ==
    LET pos == [k \in 1..Cardinality(S) |->
                   CHOOSE i \in DOMAIN KeyOrder :
                       /\ KeyOrder[i] \in S
                       /\ Cardinality({j \in DOMAIN KeyOrder :
                                          j > i /\ KeyOrder[j] \in S}) = k - 1] IN
    [k \in 1..Cardinality(S) |-> KeyOrder[pos[k]]]

\* sorted(dct), line 106
SortedKeys(S) ==
    LET pos == [k \in 1..Cardinality(S) |->
                   CHOOSE i \in DOMAIN KeyOrder :
                       /\ KeyOrder[i] \in S
                       /\ Cardinality({j \in DOMAIN KeyOrder :
                                          j < i /\ KeyOrder[j] \in S}) = k - 1] IN
    [k \in 1..Cardinality(S) |-> KeyOrder[pos[k]]]

\* the strings packaging.version.Version accepts, among those used here
ValidVersions == {"1", "2", "10"}

\* the strings packaging.specifiers.SpecifierSet accepts, among those used
ValidSpecifiers == {"", ">=3.12", "<3.13"}

\* a value as written in the file: its whitespace-separated tokens; the
\* string itself for the one-token and empty values
AsString(tokens) == IF tokens = << >> THEN "" ELSE tokens[1]

\* dct.pop(name, ""), then .split()
Pop(val, name) == IF name \in DOMAIN val THEN val[name] ELSE << >>

\* what Package.make raised
MakeRaised(error, attrs) == [raised |-> TRUE, error |-> error, attrs |-> attrs]

\* Package.make(key, val), lines 88-116; key is the section name cut at
\* every "=="
make(key, val) ==
    LET left == DOMAIN val \ {"apt_requires", "brew_requires", "custom_prebuild",
                              "likely_binary_ignore", "python_versions",
                              "validate_extras", "validate_incorrect_missing_deps",
                              "validate_skip_imports"}
        python_versions == Pop(val, "python_versions") IN
    IF Len(key) < 2 THEN MakeRaised("ValueError: not enough values to unpack", << >>)
    ELSE IF left # {} THEN MakeRaised("ValueError: unexpected attrs", SortedKeys(left))
    ELSE IF Len(key) > 2 \/ key[2] \notin ValidVersions
         THEN MakeRaised("InvalidVersion", << >>)
    ELSE IF Len(python_versions) > 1 \/ AsString(python_versions) \notin ValidSpecifiers
         THEN MakeRaised("InvalidSpecifier", << >>)
    ELSE [raised |-> FALSE,
          value |-> [name |-> key[1],
                     version |-> key[2],
                     apt_requires |-> Pop(val, "apt_requires"),
                     brew_requires |-> Pop(val, "brew_requires"),
                     custom_prebuild |-> Pop(val, "custom_prebuild"),
                     likely_binary_ignore |-> Pop(val, "likely_binary_ignore"),
                     python_versions |-> AsString(python_versions)]]

\* the section names given to Package.make: a==1, a, a==bad, a==1==2, ==1
MakeKeys ==
    {<<"a", "1">>, <<"a">>, <<"a", "bad">>, <<"a", "1", "2">>, <<"", "1">>}

\* the values a key may have in the mapping
MakeValues(name) ==
    IF name = "python_versions"
    THEN {<< >>, <<">=3.12">>, <<"<3.13">>, <<"bogus">>, <<">=3.12", "<3.13">>}
    ELSE {<< >>, <<"pkg-config">>, <<"pkg-config", "libxml">>}

\* the mappings of at most MaxKeys keys
MakeVals ==
    UNION {{v \in [S -> UNION {MakeValues(n) : n \in S}] :
               \A n \in S : v[n] \in MakeValues(n)} :
           S \in {T \in SUBSET Range(KeyOrder) : Cardinality(T) <= MaxKeys}}

InitMake ==
    \E key \in MakeKeys, val \in MakeVals :
      /\ host_platforms = HostPlatforms("linux")
      /\ Idle("linux", <<SecFoo>>, << >>)
      /\ NoVerifier
      /\ internal_wheels = EmptyDict
      /\ pair = 1
      /\ wheel = NoFile
      /\ ini = << >>
      /\ section = [key |-> key, val |-> val]
      /\ made = << >>
      /\ rets = << >>
      /\ deps = << >>
      /\ tree = {}
      /\ packages = << >>
      /\ site = [packages_json |-> << >>, wheels |-> {}]
      /\ pc = "Package.make"

\* Package.make(key, val) is called
ApplyMake ==
    /\ pc = "Package.make"
    /\ made' = <<make(section.key, section.val)>>
    /\ pc' = "returned"
    /\ UNCHANGED <<ini, section, rets, deps, tree, packages, site>>
    /\ UNCHANGED run_vars

NextMake == ApplyMake

SpecMake == InitMake /\ [][NextMake]_vars

\* the keys of the mapping that are neither build keys nor validate-only
\* keys
UnrecognizedKeys(val) ==
    {n \in DOMAIN val :
        n \notin {"apt_requires", "brew_requires", "custom_prebuild",
                  "likely_binary_ignore", "python_versions", "validate_extras",
                  "validate_incorrect_missing_deps", "validate_skip_imports"}}

\* the section name is name==version with a version
WellFormedKey(key) == Len(key) = 2 /\ key[2] \in {"1", "2", "10"}

\* the sequence lists S once each, every element before those that sort
\* after it
ListsSorted(s, S) ==
    /\ Range(s) = S
    /\ Len(s) = Cardinality(S)
    /\ \A i, j \in DOMAIN s : i < j =>
          \E a, b \in DOMAIN KeyOrder : a < b /\ KeyOrder[a] = s[i] /\ KeyOrder[b] = s[j]

\* the tokens of a key of the mapping, none when the key is missing
TokensOf(val, name) == IF name \in DOMAIN val THEN val[name] ELSE << >>

\* C21: Package.make raises for a section name that is not name==version;
\* for a section name with "==" and an unrecognized key it raises the
\* ValueError that lists the unrecognized keys in sorted order; with only
\* build keys and validate-only keys (and a valid python_versions) it
\* returns the package, each build key split into its tokens; and with no
\* keys the tuples are empty and python_versions is unconstrained
C21_MakeRejectsUnknownKeysAndNames ==
    \A k \in DOMAIN made :
        LET key == section.key
            val == section.val IN
        /\ ~WellFormedKey(key) => made[k].raised
        /\ (Len(key) >= 2 /\ UnrecognizedKeys(val) # {}) =>
              /\ made[k].raised
              /\ made[k].error = "ValueError: unexpected attrs"
              /\ ListsSorted(made[k].attrs, UnrecognizedKeys(val))
        /\ (WellFormedKey(key) /\ UnrecognizedKeys(val) = {}
              /\ TokensOf(val, "python_versions") \in {<< >>, <<">=3.12">>, <<"<3.13">>}) =>
              /\ ~made[k].raised
              /\ made[k].value.name = key[1]
              /\ made[k].value.version = key[2]
              /\ \A n \in {"apt_requires", "brew_requires", "custom_prebuild",
                           "likely_binary_ignore"} :
                     made[k].value[n] = TokensOf(val, n)
              /\ made[k].value.python_versions =
                     (IF TokensOf(val, "python_versions") = << >> THEN ""
                      ELSE val["python_versions"][1])
        /\ (WellFormedKey(key) /\ DOMAIN val = {}) =>
              /\ ~made[k].raised
              /\ made[k].value =
                    [name |-> key[1], version |-> key[2], apt_requires |-> << >>,
                     brew_requires |-> << >>, custom_prebuild |-> << >>,
                     likely_binary_ignore |-> << >>, python_versions |-> ""]

\* a==1 with the keys thing and some was rejected with the keys listed as
\* some, thing
C21_Witness ==
    /\ pc = "returned"
    /\ section.key = <<"a", "1">>
    /\ DOMAIN section.val = {"thing", "some"}
    /\ made = <<MakeRaised("ValueError: unexpected attrs", <<"some", "thing">>)>>

-----------------------------------------------------------------------------
(* The manifest formatter: format_ini *)

\* the lines of packages.ini: a section header [name==version] (key is the
\* header cut at "=="), an option "key = tokens", an indented continuation
\* line holding one token, and a blank line
SectionLine(name) == [kind |-> "section", key |-> name, tokens |-> << >>]
OptionLine(k, tokens) == [kind |-> "option", key |-> <<k>>, tokens |-> tokens]
ContLine(token) == [kind |-> "cont", key |-> << >>, tokens |-> <<token>>]
BlankLine == [kind |-> "blank", key |-> << >>, tokens |-> << >>]

\* the tokens of a value, in the order Python sorts str
TokenOrder == <<"#a", "b", "c">>

\* the normalized package names, in the order Python sorts str
NameOrder == <<"a", "my-pkg">>

\* the option keys, in the order Python sorts str
OptionOrder == <<"apt_requires", "brew_requires">>

\* the position of an element in one of the orders above
Rank(order, x) == CHOOSE i \in DOMAIN order : order[i] = x

\* packaging.version.Version of a version text: its number, 0 when the
\* text is no version
IniVersion(text) ==
    CASE text = "1" -> 1
      [] text = "2" -> 2
      [] text = "10" -> 10
      [] OTHER -> 0

\* configparser: a line whose text starts with # or ; is a comment
IsComment(line) == line.kind = "cont" /\ line.tokens[1] = "#a"

\* the state of RawConfigParser._read: the sections read so far, the
\* section and the option being filled (0 and "" for none), the error
\* raised
ReadState(sections, cur, optname, error) ==
    [sections |-> sections, cur |-> cur, optname |-> optname, error |-> error]

\* RawConfigParser._read on one line (strict=False: a repeated section is
\* reopened, a repeated option replaces the earlier one)
ReadLine(st, line) ==
    LET same == {i \in DOMAIN st.sections : st.sections[i].key = line.key}
        AddTokens(opts, k, tokens) ==
            [o \in DOMAIN opts \cup {k} |->
                IF o = k THEN tokens ELSE opts[o]] IN
    IF st.error \in {"MissingSectionHeaderError"} THEN st
    ELSE IF IsComment(line) \/ line.kind = "blank" THEN st
    ELSE IF line.kind = "cont" /\ st.cur # 0 /\ st.optname # ""
    THEN [st EXCEPT !.sections[st.cur].opts[st.optname] = @ \o line.tokens]
    ELSE IF line.kind = "section"
    THEN IF same # {}
         THEN [st EXCEPT !.cur = CHOOSE i \in same : TRUE, !.optname = ""]
         ELSE [st EXCEPT !.sections = Append(@, [key |-> line.key, opts |-> << >>]),
                         !.cur = Len(st.sections) + 1,
                         !.optname = ""]
    ELSE IF st.cur = 0 THEN [st EXCEPT !.error = "MissingSectionHeaderError"]
    ELSE IF line.kind = "option"
    THEN [st EXCEPT !.sections[st.cur].opts = AddTokens(@, line.key[1], line.tokens),
                    !.optname = line.key[1]]
    ELSE [st EXCEPT !.error = "ParsingError"]

RECURSIVE ReadFrom(_, _, _)
ReadFrom(st, lines, k) ==
    IF k > Len(lines) THEN st ELSE ReadFrom(ReadLine(st, lines[k]), lines, k + 1)

\* orig.read_string(contents), line 37
read_string(contents) == ReadFrom(ReadState(<< >>, 0, "", ""), contents, 1)

\* _section_sort_key(s), lines 17-19
_section_sort_key(s) == <<Rank(NameOrder, canonicalize_name(s[1])), IniVersion(s[2])>>

\* the order of the sort keys
KeyLess(a, b) == a[1] < b[1] \/ (a[1] = b[1] /\ a[2] < b[2])

\* sorted(v_split), line 26
SortTokens(tokens) ==
    LET count(t) == Cardinality({i \in DOMAIN tokens : tokens[i] = t})
        a == [i \in 1..count(TokenOrder[1]) |-> TokenOrder[1]]
        b == [i \in 1..count(TokenOrder[2]) |-> TokenOrder[2]]
        c == [i \in 1..count(TokenOrder[3]) |-> TokenOrder[3]] IN
    a \o b \o c

\* the lines cfg.write gives one option: _format_value (lines 22-29), the
\* tab of a continuation line replaced and trailing spaces removed (lines
\* 66-67)
OptionLines(k, tokens) ==
    IF Len(tokens) > 1
    THEN <<OptionLine(k, << >>)>> \o
         [i \in DOMAIN tokens |-> ContLine(SortTokens(tokens)[i])]
    ELSE <<OptionLine(k, tokens)>>

\* the options of a section, sorted by key (line 56)
SectionBody(opts) ==
    (IF "apt_requires" \in DOMAIN opts
     THEN OptionLines("apt_requires", opts["apt_requires"]) ELSE << >>) \o
    (IF "brew_requires" \in DOMAIN opts
     THEN OptionLines("brew_requires", opts["brew_requires"]) ELSE << >>)

\* the sections sorted by _section_sort_key (line 51); their keys differ
\* wherever this is used
SortSections(sections) ==
    LET before_(i) == {j \in DOMAIN sections :
                          KeyLess(_section_sort_key(sections[j].key),
                                  _section_sort_key(sections[i].key))} IN
    [k \in DOMAIN sections |->
        sections[CHOOSE i \in DOMAIN sections : Cardinality(before_(i)) = k - 1]]

\* lines 59-80: the sections written one after the other, a blank line
\* between sections of different packages only
RECURSIVE WriteFrom(_, _)
WriteFrom(sorted, k) ==
    IF k > Len(sorted) THEN << >>
    ELSE LET s == sorted[k]
             head == SectionLine(<<canonicalize_name(s.key[1]), s.key[2]>>)
             gap == IF k < Len(sorted)
                       /\ canonicalize_name(sorted[k + 1].key[1]) # canonicalize_name(s.key[1])
                    THEN <<BlankLine>> ELSE << >> IN
         <<head>> \o SectionBody(s.opts) \o gap \o WriteFrom(sorted, k + 1)

\* what a run of format_ini ends with: the exception that ended it ("" for
\* none), the exit status, what it printed and the contents of the file
Formatted(code, stderr, contents) ==
    [raised |-> "", code |-> code, stderr |-> stderr, contents |-> contents]

\* the run ended with an exception: a traceback and the exit status 1
FormatRaised(error, contents) ==
    [raised |-> error, code |-> 1, stderr |-> "Traceback", contents |-> contents]

\* _format_file(filename), lines 32-89
_format_file(contents) ==
    LET orig == read_string(contents)
        keys == [i \in DOMAIN orig.sections |-> orig.sections[i].key]
        newcontents == WriteFrom(SortSections(orig.sections), 1) IN
    IF orig.error # "" THEN FormatRaised(orig.error, contents)
    ELSE IF \E i \in DOMAIN keys : Len(keys[i]) < 2
    THEN Formatted(1, "must be", contents)
    ELSE IF \E i \in DOMAIN keys : IniVersion(keys[i][2]) = 0
    THEN FormatRaised("InvalidVersion", contents)
    ELSE IF \E i, j \in DOMAIN keys :
               i # j /\ _section_sort_key(keys[i]) = _section_sort_key(keys[j])
    THEN FormatRaised("DuplicateSectionError", contents)
    ELSE IF contents # newcontents
    THEN Formatted(1, "formatted", newcontents)
    ELSE Formatted(0, "", contents)

\* the lines a file is drawn from
IniLines ==
    {SectionLine(k) : k \in {<<"a", "1">>, <<"a", "2">>, <<"a", "10">>, <<"my_pkg", "1">>,
                             <<"my-pkg", "1">>, <<"a">>, <<"a", "bad">>}}
    \cup {OptionLine(k, t) : k \in Range(OptionOrder),
                             t \in {<< >>, <<"b">>, <<"c", "b">>, <<"b", "#a">>}}
    \cup {ContLine("b"), ContLine("#a"), BlankLine}

InitFormat ==
    \E contents \in SeqsUpTo(IniLines, MaxIniLines) :
      /\ host_platforms = HostPlatforms("linux")
      /\ Idle("linux", <<SecFoo>>, << >>)
      /\ NoVerifier
      /\ internal_wheels = EmptyDict
      /\ pair = 1
      /\ wheel = NoFile
      /\ ini = contents
      /\ section = [key |-> << >>, val |-> << >>]
      /\ made = << >>
      /\ rets = << >>
      /\ deps = << >>
      /\ tree = {}
      /\ packages = << >>
      /\ site = [packages_json |-> << >>, wheels |-> {}]
      /\ pc = "format_ini"

\* format_ini packages.ini is run
FormatIni ==
    /\ pc = "format_ini"
    /\ Len(rets) < MaxToolRuns
    /\ LET r == _format_file(ini) IN
         /\ ini' = r.contents
         /\ rets' = Append(rets, [raised |-> r.raised, code |-> r.code, stderr |-> r.stderr])
    /\ UNCHANGED <<pc, section, made, deps, tree, packages, site>>
    /\ UNCHANGED run_vars

NextFormat == FormatIni

SpecFormat == InitFormat /\ [][NextFormat]_vars

\* the headers of a file, in file order
Headers(lines) ==
    LET at == {i \in DOMAIN lines : lines[i].kind = "section"} IN
    [k \in 1..Cardinality(at) |->
        lines[CHOOSE i \in at : Cardinality({j \in at : j < i}) = k - 1].key]

\* configparser reads the file
IsIni(lines) == read_string(lines).error = ""

\* every section of the file is name==version
AllNameVersion(lines) ==
    \A i \in DOMAIN lines :
        lines[i].kind = "section" =>
            Len(lines[i].key) = 2 /\ lines[i].key[2] \in {"1", "2", "10"}

\* a section of the file has no "==" in its name
SomeMalformed(lines) ==
    \E i \in DOMAIN lines : lines[i].kind = "section" /\ Len(lines[i].key) < 2

\* the sections are in the order of (normalized name, version), the keys
\* of each section in order, and every value of several tokens is written
\* one token per line
IniSorted(lines) ==
    /\ \A i, j \in DOMAIN lines :
          (i < j /\ lines[i].kind = "section" /\ lines[j].kind = "section") =>
              LET a == lines[i].key
                  b == lines[j].key IN
              \/ Rank(NameOrder, canonicalize_name(a[1])) < Rank(NameOrder, canonicalize_name(b[1]))
              \/ /\ canonicalize_name(a[1]) = canonicalize_name(b[1])
                 /\ IniVersion(a[2]) <= IniVersion(b[2])
    /\ \A i, j \in DOMAIN lines :
          (/\ i < j
           /\ lines[i].kind = "option"
           /\ lines[j].kind = "option"
           /\ \A m \in i..j : lines[m].kind # "section") =>
              Rank(OptionOrder, lines[i].key[1]) < Rank(OptionOrder, lines[j].key[1])
    /\ \A i \in DOMAIN lines :
          lines[i].kind = "option" =>
              /\ Len(lines[i].tokens) <= 1
              /\ (i < Len(lines) /\ lines[i + 1].kind = "cont") => lines[i].tokens = << >>

\* the run before this one formatted the file or found it formatted
LastRunFormatted ==
    /\ rets # << >>
    /\ rets[Len(rets)].raised = ""
    /\ rets[Len(rets)].stderr \in {"", "formatted"}

\* after a run on a file whose sections are all name==version, the
\* sections are sorted by (normalized name, version), the keys are sorted
\* and values of several tokens are one per line
FormattedIsSorted ==
    (rets # << >> /\ IsIni(ini) /\ AllNameVersion(ini)) => IniSorted(ini)

\* a run on a file whose sections are all name==version formats it
RunFormats ==
    (IsIni(ini) /\ AllNameVersion(ini)) => rets'[Len(rets')].raised = ""

\* a run on the output of a run returns 0 and leaves the file as it is
SecondRunUnchanged ==
    LastRunFormatted => (rets'[Len(rets')].code = 0 /\ ini' = ini)

\* a run on a file with a malformed section name returns 1 and leaves the
\* file as it is
MalformedLeftAlone ==
    (IsIni(ini) /\ SomeMalformed(ini)) =>
        (rets'[Len(rets')].raised = "" /\ rets'[Len(rets')].code = 1 /\ ini' = ini)

\* C22: format_ini is idempotent: for a file whose sections are all
\* name==version, one run leaves the sections sorted by (normalized name,
\* version), the keys sorted and values of several tokens one per line,
\* and a second run on that output returns 0 and leaves the file as it
\* is; a file with a malformed section name makes the run return 1
\* without modifying the file
C22_FormatIsIdempotent ==
    /\ []FormattedIsSorted
    /\ [][FormatIni => (RunFormats /\ SecondRunUnchanged /\ MalformedLeftAlone)]_vars

-----------------------------------------------------------------------------
(* Adding packages to the manifest: add_pkg *)

\* configparser.ConfigParser() is strict: a section or an option of a
\* section that is written twice ends the read
HasDuplicate(lines) ==
    \E i, j \in DOMAIN lines :
        /\ i < j
        /\ lines[i].kind = lines[j].kind
        /\ lines[i].key = lines[j].key
        /\ \/ lines[i].kind = "section"
           \/ lines[i].kind = "option" /\ \A m \in i..j : lines[m].kind # "section"

\* pkgs_latest, line 41: the version of the last section of each name
pkgs_latest(sections) ==
    [name \in {sections[i].key[1] : i \in DOMAIN sections} |->
        LET last == CHOOSE i \in DOMAIN sections :
                        /\ sections[i].key[1] = name
                        /\ \A j \in DOMAIN sections : sections[j].key[1] = name => j <= i IN
        sections[last].key[2]]

\* the options of a section of cfg
OptionsOf(sections, key) ==
    LET i == CHOOSE i \in DOMAIN sections : sections[i].key = key IN sections[i].opts

\* cfg[key] = value: the options of an existing section are replaced, a new
\* section is added after the others
SetSection(sections, key, value) ==
    IF \E i \in DOMAIN sections : sections[i].key = key
    THEN [i \in DOMAIN sections |->
             IF sections[i].key = key THEN [key |-> key, opts |-> value] ELSE sections[i]]
    ELSE Append(sections, [key |-> key, opts |-> value])

\* lines 43-56 from the k-th resolved requirement on
RECURSIVE AddFrom(_, _, _, _)
AddFrom(sections, latest, resolved, k) ==
    IF k > Len(resolved) THEN sections
    ELSE LET name == resolved[k][1]
             copy_from == IF name \in DOMAIN latest
                          THEN OptionsOf(sections, <<name, latest[name]>>)
                          ELSE << >> IN
         AddFrom(SetSection(sections, resolved[k], copy_from), latest, resolved, k + 1)

\* cfg.write(f), lines 58-59: the sections in the order of cfg, each option
\* on a line
RECURSIVE WriteCfg(_, _)
WriteCfg(sections, k) ==
    IF k > Len(sections) THEN << >>
    ELSE LET opts == sections[k].opts IN
         <<SectionLine(sections[k].key)>> \o
         (IF "apt_requires" \in DOMAIN opts
          THEN <<OptionLine("apt_requires", opts["apt_requires"])>> ELSE << >>) \o
         (IF "brew_requires" \in DOMAIN opts
          THEN <<OptionLine("brew_requires", opts["brew_requires"])>> ELSE << >>) \o
         <<BlankLine>> \o WriteCfg(sections, k + 1)

\* add_pkg.main, lines 14-62, once pip has resolved the requirements; the
\* exit status of format_ini is not looked at
add_pkg(contents, resolved) ==
    LET cfg_ == read_string(contents)
        written == WriteCfg(AddFrom(cfg_.sections, pkgs_latest(cfg_.sections), resolved, 1), 1) IN
    IF cfg_.error # "" THEN FormatRaised(cfg_.error, contents)
    ELSE IF HasDuplicate(contents) THEN FormatRaised("DuplicateSectionError", contents)
    ELSE IF \E i \in DOMAIN cfg_.sections : Len(cfg_.sections[i].key) < 2
    THEN FormatRaised("ValueError", contents)
    ELSE Formatted(0, "", _format_file(written).contents)

\* the lines a manifest given to add_pkg is drawn from
ManifestLines ==
    {SectionLine(k) : k \in {<<"a", "1">>, <<"a", "2">>, <<"my-pkg", "1">>}}
    \cup {OptionLine("apt_requires", <<"b">>), OptionLine("apt_requires", <<"c">>),
          OptionLine("brew_requires", <<"b">>)}

\* what pip resolved: (name, version) of the wheels, sorted by filename
Resolved ==
    {<<<<"a", "1">>>>, <<<<"a", "2">>>>, <<<<"a", "10">>>>, <<<<"my-pkg", "1">>>>,
     <<<<"a", "1">>, <<"my-pkg", "1">>>>}

InitAdd ==
    \E contents \in SeqsUpTo(ManifestLines, MaxIniLines), resolved \in Resolved :
      /\ host_platforms = HostPlatforms("linux")
      /\ Idle("linux", <<SecFoo>>, << >>)
      /\ NoVerifier
      /\ internal_wheels = EmptyDict
      /\ pair = 1
      /\ wheel = NoFile
      /\ ini = contents
      /\ section = [key |-> << >>, val |-> << >>]
      /\ made = << >>
      /\ rets = << >>
      /\ deps = resolved
      /\ tree = {}
      /\ packages = << >>
      /\ site = [packages_json |-> << >>, wheels |-> {}]
      /\ pc = "add_pkg"

\* add_pkg is run for the requirements that resolve to deps
AddPkg ==
    /\ pc = "add_pkg"
    /\ Len(rets) < MaxToolRuns
    /\ LET r == add_pkg(ini, deps) IN
         /\ ini' = r.contents
         /\ rets' = Append(rets, [raised |-> r.raised, code |-> r.code, stderr |-> r.stderr])
    /\ UNCHANGED <<pc, section, made, deps, tree, packages, site>>
    /\ UNCHANGED run_vars

NextAdd == AddPkg

SpecAdd == InitAdd /\ [][NextAdd]_vars

\* the options written under a section header of a file (those of the
\* lines between the header and the next one)
Written(lines, key) ==
    LET at == CHOOSE i \in DOMAIN lines : lines[i].kind = "section" /\ lines[i].key = key
        mine == {j \in DOMAIN lines :
                    /\ j > at
                    /\ lines[j].kind = "option"
                    /\ \A m \in at + 1..j : lines[m].kind # "section"} IN
    {<<lines[j].key[1], lines[j].tokens>> : j \in mine}

\* the section headers of a file
HeaderSet(lines) == {lines[i].key : i \in DOMAIN lines} \ {<< >>, <<"apt_requires">>, <<"brew_requires">>}

\* C23: add_pkg leaves the manifest unchanged when the resolved
\* name==version is already present: whatever the manifest (several
\* versions of one package with different settings included), the section
\* re-added keeps its keys and values and so does every other section
C23_ReaddingChangesNothing ==
    [][(AddPkg /\ IsIni(ini) /\ ~HasDuplicate(ini)
          /\ \E k \in DOMAIN deps : deps[k] \in HeaderSet(ini)) =>
        \A key \in HeaderSet(ini) :
            /\ key \in HeaderSet(ini')
            /\ Written(ini', key) = Written(ini, key)]_vars

-----------------------------------------------------------------------------
(* Publishing: make_index *)

\* a file dist/<dir>/<base> with its bytes
DistFile(dir, base, content) == [dir |-> dir, base |-> base, content |-> content]

\* the directories under --dist and the wheel basenames, in the order
\* Python sorts str
DirOrder == <<"a", "b">>
BaseOrder == <<"x-1-py3-none-any.whl", "y-1-py3-none-any.whl">>

\* os.path.join(root, filename) of one file sorts before that of another
PathLess(f, g) ==
    \/ Rank(DirOrder, f.dir) < Rank(DirOrder, g.dir)
    \/ f.dir = g.dir /\ Rank(BaseOrder, f.base) < Rank(BaseOrder, g.base)

\* the files from the last path to the first
SortPaths_descending(files) ==
    [k \in 1..Cardinality(files) |->
        CHOOSE f \in files : Cardinality({g \in files : PathLess(f, g)}) = k - 1]

\* sorted(os.path.join(root, filename) ...), lines 80-84
SortPaths(files) ==
    [k \in 1..Cardinality(files) |->
        CHOOSE f \in files : Cardinality({g \in files : PathLess(g, f)}) = k - 1]

\* _make_info(filename), lines 28-54: the basename and the hash of the bytes
_make_info(f) == [filename |-> f.base, hash |-> f.content]

\* what the loop of lines 80-93 holds: new_packages, the files copied to
\* wheels_dir, and whether it raised
Walked(new_packages, wheels, raised) ==
    [new_packages |-> new_packages, wheels |-> wheels, raised |-> raised]

\* lines 80-93 from the k-th path on
RECURSIVE WalkFrom(_, _, _, _)
WalkFrom(paths, on_pypi, k, acc) ==
    IF k > Len(paths) THEN acc
    ELSE LET basename == paths[k].base
             seen == {acc.new_packages[i].filename : i \in DOMAIN acc.new_packages} IN
         IF basename \in on_pypi THEN [acc EXCEPT !.raised = "AssertionError"]
         ELSE IF basename \in seen THEN WalkFrom(paths, on_pypi, k + 1, acc)
         ELSE WalkFrom(paths, on_pypi, k + 1,
                       Walked(Append(acc.new_packages, _make_info(paths[k])),
                              acc.wheels \cup {[base |-> basename, content |-> paths[k].content]},
                              ""))

\* make_index.main, lines 57-123: what is under --dest afterwards, and how
\* the run ended
make_index(files, remote) ==
    LET on_pypi == {remote[i].filename : i \in DOMAIN remote}
        walk == WalkFrom(SortPaths(files), on_pypi, 1, Walked(<< >>, {}, "")) IN
    IF walk.raised # ""
    THEN [raised |-> walk.raised, code |-> 1,
          site |-> [packages_json |-> << >>, wheels |-> walk.wheels]]
    ELSE [raised |-> "", code |-> 0,
          site |-> [packages_json |-> remote \o walk.new_packages, wheels |-> walk.wheels]]

\* the trees under --dist: at most MaxTree files, one for a path
Trees ==
    LET paths == {<<d, b>> : d \in Range(DirOrder), b \in Range(BaseOrder)} IN
    UNION {{{DistFile(p[1], p[2], c[p]) : p \in P} : c \in [P -> {1, 2}]} :
           P \in {Q \in SUBSET paths : Cardinality(Q) <= MaxTree}}

\* the lines of the remote packages.json
RemoteEntries ==
    {[filename |-> "x-1-py3-none-any.whl", hash |-> 1],
     [filename |-> "y-1-py3-none-any.whl", hash |-> 2],
     [filename |-> "z-1-py3-none-any.whl", hash |-> 1],
     [filename |-> "z-2-py3-none-any.whl", hash |-> 1]}

InitMakeIndex ==
    \E files \in Trees, remote \in SeqsUpTo(RemoteEntries, MaxRemote) :
      /\ host_platforms = HostPlatforms("linux")
      /\ Idle("linux", <<SecFoo>>, << >>)
      /\ NoVerifier
      /\ internal_wheels = EmptyDict
      /\ pair = 1
      /\ wheel = NoFile
      /\ ini = << >>
      /\ section = [key |-> << >>, val |-> << >>]
      /\ made = << >>
      /\ rets = << >>
      /\ deps = << >>
      /\ tree = files
      /\ packages = remote
      /\ site = [packages_json |-> << >>, wheels |-> {}]
      /\ pc = "make_index"

\* make_index --dist dist --pypi-url ... --dest ... is run
MakeIndex ==
    /\ pc = "make_index"
    /\ LET r == make_index(tree, packages) IN
         /\ site' = r.site
         /\ rets' = Append(rets, [raised |-> r.raised, code |-> r.code, stderr |-> ""])
    /\ pc' = "returned"
    /\ UNCHANGED <<ini, section, made, deps, tree, packages>>
    /\ UNCHANGED run_vars

NextMakeIndex == MakeIndex

SpecMakeIndex == InitMakeIndex /\ [][NextMakeIndex]_vars

\* the file of the tree that is first by full path among those of its
\* basename
FirstOfBasename(f) ==
    \A g \in tree :
        g.base = f.base =>
            \/ g = f
            \/ Rank(DirOrder, f.dir) < Rank(DirOrder, g.dir)

\* a file of the tree has the filename of an entry of the remote catalog
SomeOnPypi ==
    \E f \in tree : \E i \in DOMAIN packages : packages[i].filename = f.base

\* C24: make_index publishes each new basename at most once: of the files
\* of the dist tree that share a basename only the one whose full path
\* sorts first is added to the catalog and copied to the wheels
\* directory; a dist file whose basename is in the remote catalog aborts
\* the run; and the catalog written is the published entries, unchanged
\* and in their order, followed by the new entries
C24_FirstWinsCatalogAppended ==
    pc = "returned" =>
        LET written == site.packages_json
            added == [k \in 1..Len(written) - Len(packages) |-> written[Len(packages) + k]] IN
        IF SomeOnPypi
        THEN /\ rets[Len(rets)].raised = "AssertionError"
             /\ written = << >>
        ELSE /\ rets[Len(rets)].raised = ""
             /\ rets[Len(rets)].code = 0
             /\ Len(written) >= Len(packages)
             /\ \A i \in DOMAIN packages : written[i] = packages[i]
             /\ \A i, j \in DOMAIN added : added[i].filename = added[j].filename => i = j
             /\ Range(added) =
                   {[filename |-> f.base, hash |-> f.content] : f \in {g \in tree : FirstOfBasename(g)}}
             /\ site.wheels =
                   {[base |-> f.base, content |-> f.content] : f \in {g \in tree : FirstOfBasename(g)}}

\* a run returned 0 with two files of one basename and different bytes in
\* the tree and an entry in the remote catalog
C24_Witness ==
    /\ pc = "returned"
    /\ rets[Len(rets)].code = 0
    /\ packages # << >>
    /\ \E f, g \in tree : f.base = g.base /\ f.content # g.content
    /\ Len(site.packages_json) > Len(packages)

====
